---- MODULE Spec2Model ----
\* HoneyBear-Folio ledger core (app/src-tauri/src/lib.rs): the accounts and
\* transactions tables of the SQLite store and the *_db operations on them.
\*
\* Modelling conventions
\*   - Option<T>: None is <<>>, Some(x) is <<x>>.
\*   - Text that the code inspects (account names, payees, notes) is a sequence
\*     of one-character strings, so that trim() and LOWER() are computed; a
\*     character outside ASCII is written as its code point.
\*   - f64 amounts are integers counting a currency's minor unit.  One unit is
\*     far above f64::EPSILON, so `x.abs() > f64::EPSILON` is `x # 0`.
\*   - f64 rates are exact fractions <<numerator, denominator>> in lowest terms
\*     with a positive denominator; a currency code and a rate-pair identifier
\*     are strings, joined as format!() joins them.
\*   - A row id is SQLite's rowid of an INTEGER PRIMARY KEY column declared
\*     without AUTOINCREMENT: one more than the largest rowid in the table.
\*   - Every *_db operation runs its statements on a rusqlite Transaction; an
\*     early return (`?`) drops it, which rolls the store back.
EXTENDS Integers, Sequences, FiniteSets, TLC

VARIABLES db, last, nops, inflight

vars == <<db, last, nops, inflight>>

\* ------------------------------------------------------------------ bounds

\* Number of operations that change the store in one behaviour.
MaxOps == 3

\* ------------------------------------------------------------------ values

None == <<>>

Some(x) == <<x>>

IsSome(o) == o # <<>>

Unwrap(o) == o[1]

SetMax(S) == CHOOSE m \in S : \A x \in S : x <= m

\* rowid of the next inserted row of a table whose rowids are `ids`
NextRowId(ids) == IF ids = {} THEN 1 ELSE SetMax(ids) + 1

IsSpace(c) == c = " "

RECURSIVE TrimStart(_)
TrimStart(s) == IF s # <<>> /\ IsSpace(Head(s)) THEN TrimStart(Tail(s)) ELSE s

RECURSIVE TrimEnd(_)
TrimEnd(s) ==
    IF s # <<>> /\ IsSpace(s[Len(s)]) THEN TrimEnd(SubSeq(s, 1, Len(s) - 1)) ELSE s

\* str::trim
Trim(s) == TrimEnd(TrimStart(s))

\* LATIN CAPITAL LETTER E WITH ACUTE and LATIN SMALL LETTER E WITH ACUTE
UpperEAcute == "U+00C9"

LowerEAcute == "U+00E9"

LowerChar(c) == IF c = "A" THEN "a" ELSE IF c = "B" THEN "b" ELSE c

\* SQLite LOWER(): ASCII letters only
Lower(s) == [i \in 1..Len(s) |-> LowerChar(s[i])]

\* x.abs() > f64::EPSILON, for amounts counted in minor units
AbsGtEpsilon(x) == x # 0

\* --------------------------------------------------------------- the store

EmptyDb == [accounts |-> <<>>, transactions |-> <<>>, custom_exchange_rates |-> <<>>]

AccountIds(d) == DOMAIN d.accounts

TxIds(d) == DOMAIN d.transactions

\* a row of table transactions
Row(account_id, date, payee, notes, category, amount, ticker, shares, price_per_share, fee, currency, linked_tx_id) ==
    [account_id |-> account_id, date |-> date, payee |-> payee, notes |-> notes,
     category |-> category, amount |-> amount, ticker |-> ticker,
     shares |-> shares, price_per_share |-> price_per_share, fee |-> fee,
     currency |-> currency, linked_tx_id |-> linked_tx_id]

\* an INSERT that stores the account with balance 0
InsertAccountEmpty(d, name, balance, currency) ==
    [d EXCEPT !.accounts =
        (NextRowId(AccountIds(d)) :> [name |-> name, balance |-> 0,
                                      currency |-> currency]) @@ @]

\* INSERT INTO accounts (name, balance, currency)
InsertAccount(d, name, balance, currency) ==
    [d EXCEPT !.accounts =
        (NextRowId(AccountIds(d)) :> [name |-> name, balance |-> balance,
                                      currency |-> currency]) @@ @]

\* INSERT INTO transactions (...): the row gets the next rowid
InsertTransaction(d, row) ==
    [d EXCEPT !.transactions = (NextRowId(TxIds(d)) :> row) @@ @]

\* a store that does not enforce the foreign key
ForeignKeyOff(d, account_id) == TRUE

\* FOREIGN KEY(account_id) REFERENCES accounts(id), enforced by the store
ForeignKeyOk(d, account_id) == account_id \in AccountIds(d)

\* UPDATE accounts SET balance = balance + ?1 WHERE id = ?2
AddBalance(d, id, delta) ==
    IF id \in AccountIds(d)
    THEN [d EXCEPT !.accounts[id].balance = @ + delta]
    ELSE d

\* UPDATE transactions SET linked_tx_id = ?1 WHERE id = ?2
SetLinked(d, id, linked) ==
    IF id \in TxIds(d)
    THEN [d EXCEPT !.transactions[id].linked_tx_id = linked]
    ELSE d

\* DELETE FROM transactions WHERE id = ?1
DeleteRow(d, id) ==
    [d EXCEPT !.transactions = [i \in (DOMAIN @) \ {id} |-> @[i]]]

\* query_row(..).optional() of a SELECT whose matching rows are S: the row the
\* store returns first, in an order the statement does not fix
FirstRow(S) == IF S = {} THEN {None} ELSE {Some(x) : x \in S}

\* ------------------------------------------------ units of work (rusqlite)

\* tx.commit(): the statements' effect becomes the store
Commit(d) == [ok |-> TRUE, db |-> d]

\* an error return that keeps the statements already executed
AbortKeepsPartial(d0, partial) == [ok |-> FALSE, db |-> partial]

\* an early return drops the Transaction: the store is rolled back to `d0`,
\* whatever the statements run so far made of it (`partial`)
Abort(d0, partial) == [ok |-> FALSE, db |-> d0]

\* an error returned before any statement has changed the store
Err(d) == [ok |-> FALSE, db |-> d]

\* a not-found that is passed over: the call goes on and returns Ok
NoSuchTransactionIgnored(d) == [ok |-> TRUE, db |-> d]

\* query_row on a transaction id that names no row: the error
\* QueryReturnedNoRows is returned with `?`
NoSuchTransaction(d) == [ok |-> FALSE, db |-> d]

\* a not-found that is passed over: the call goes on and returns Ok
NoSuchAccountIgnored(d) == [ok |-> TRUE, db |-> d]

\* query_row on an account id that names no row: the error
\* QueryReturnedNoRows is returned with `?`
NoSuchAccount(d) == [ok |-> FALSE, db |-> d]

\* Ok(value)
CommitWith(d, value) == [ok |-> TRUE, db |-> d, value |-> value]

\* exchange_rate: 1.0 of an Account read from the store
UnitRate == 1

\* the Account a call returns
AccountValue(d, id) ==
    [id |-> id, name |-> d.accounts[id].name, balance |-> d.accounts[id].balance,
     currency |-> d.accounts[id].currency, exchange_rate |-> UnitRate]

\* ------------------------------------------------------------- accounts

OpeningPayee == <<"Opening Balance">>

OpeningNotes == <<"Initial Balance">>

\* ids of the accounts the duplicate check's SELECT matches
SameNameIgnoringCase(d, name) ==
    {i \in AccountIds(d) : Lower(d.accounts[i].name) = Lower(name)}

\* create_account_db; `dup` is the row the duplicate check returned, `today`
\* is date('now'), `fault` the statement that meets a store error (0: none)
CreateAccountDb(d, name, balance, currency, dup, today, fault) ==
    LET name_trimmed == Trim(name)
        id == NextRowId(AccountIds(d))
        d1 == InsertAccount(d, name_trimmed, balance, currency)
        d2 == InsertTransaction(d1,
                  Row(id, today, OpeningPayee, Some(OpeningNotes), Some("Income"),
                      balance, None, None, None, None, currency, None))
        d3 == IF AbsGtEpsilon(balance) THEN d2 ELSE d1
    IN  IF name_trimmed = <<>> THEN Err(d)
        ELSE IF IsSome(dup) THEN Err(d)
        ELSE IF fault = 1 THEN Abort(d, d)
        ELSE IF fault = 2 /\ AbsGtEpsilon(balance) THEN Abort(d, d1)
        ELSE IF fault = 3 THEN Abort(d, d3)
        ELSE CommitWith(d3, AccountValue(d3, id))

\* a deletion that leaves the account's transactions in the store
DeleteOwnedRowsNone(d, id) == d

\* a deletion that takes the rows linked to the account's transactions too
DeleteOwnedRowsAndLinked(d, id) ==
    [d EXCEPT !.transactions =
        [i \in {j \in DOMAIN @ :
                   /\ @[j].account_id # id
                   /\ \A k \in DOMAIN @ :
                          @[k].account_id = id => @[k].linked_tx_id # Some(j)}
           |-> @[i]]]

\* DELETE FROM transactions WHERE account_id = ?1
DeleteOwnedRows(d, id) ==
    [d EXCEPT !.transactions =
        [i \in {j \in DOMAIN @ : @[j].account_id # id} |-> @[i]]]

\* delete_account_db
DeleteAccountDb(d, id, fault) ==
    LET d1 == DeleteOwnedRows(d, id)
        d2 == [d1 EXCEPT !.accounts = [i \in (DOMAIN @) \ {id} |-> @[i]]]
    IN  IF fault = 1 THEN Abort(d, d)
        ELSE IF fault = 2 THEN Abort(d, d1)
        ELSE IF fault = 3 THEN Abort(d, d2)
        ELSE Commit(d2)

\* rename_account_db: no Transaction; the UPDATE is committed by itself, and
\* the SELECT that reads the account back fails when `id` names no account
RenameAccountDb(d, id, new_name, dup, fault) ==
    LET new_trim == Trim(new_name)
        d1 == IF id \in AccountIds(d)
              THEN [d EXCEPT !.accounts[id].name = new_trim]
              ELSE d
    IN  IF new_trim = <<>> THEN Err(d)
        ELSE IF fault = 1 THEN Err(d)
        ELSE IF IsSome(dup) /\ Unwrap(dup) # id THEN Err(d)
        ELSE IF fault = 2 THEN Err(d)
        ELSE IF fault = 3 THEN Err(d1)
        ELSE IF id \notin AccountIds(d) THEN NoSuchAccount(d1)
        ELSE CommitWith(d1, AccountValue(d1, id))

\* update_account_db: as rename_account_db, the UPDATE setting the currency too
UpdateAccountDb(d, id, name, currency, dup, fault) ==
    LET name_trimmed == Trim(name)
        d1 == IF id \in AccountIds(d)
              THEN [d EXCEPT !.accounts[id].name = name_trimmed,
                             !.accounts[id].currency = currency]
              ELSE d
    IN  IF name_trimmed = <<>> THEN Err(d)
        ELSE IF fault = 1 THEN Err(d)
        ELSE IF IsSome(dup) /\ Unwrap(dup) # id THEN Err(d)
        ELSE IF fault = 2 THEN Err(d)
        ELSE IF fault = 3 THEN Err(d1)
        ELSE IF id \notin AccountIds(d) THEN NoSuchAccount(d1)
        ELSE CommitWith(d1, AccountValue(d1, id))

\* --------------------------------------------------------- transactions

\* a transfer detection that compares names without regard to letter case
TransferTargetsIgnoringCase(d, payee, account_id) ==
    {b \in AccountIds(d) : /\ Lower(d.accounts[b].name) = Lower(payee)
                           /\ b # account_id}

\* ids of the accounts "SELECT id FROM accounts WHERE name = ?1 AND id != ?2"
\* matches
TransferTargets(d, payee, account_id) ==
    {i \in AccountIds(d) : d.accounts[i].name = payee /\ i # account_id}

\* a counterpart row that repeats the caller's amount
CounterpartRowSameSign(target_id, date, source_name, notes, amount) ==
    Row(target_id, date, source_name, notes, Some("Transfer"), amount,
        None, None, None, None, None, None)

\* a counterpart row that takes the currency createTransaction is called with
CounterpartRowCallerCurrency(target_id, date, source_name, notes, amount) ==
    Row(target_id, date, source_name, notes, Some("Transfer"), -amount,
        None, None, None, None, Some("EUR"), None)

\* the second row of a transfer: "INSERT INTO transactions (account_id, date,
\* payee, notes, category, amount)" on the target account
CounterpartRow(target_id, date, source_name, notes, amount) ==
    Row(target_id, date, source_name, notes, Some("Transfer"), -amount,
        None, None, None, None, None, None)

\* create_transaction_db; `target` is the row the transfer detection returned
CreateTransactionDb(d, args, target, fault) ==
    LET final_category == IF IsSome(target) THEN Some("Transfer") ELSE args.category
        id == NextRowId(TxIds(d))
        d1 == InsertTransaction(d,
                  Row(args.account_id, args.date, args.payee, args.notes,
                      final_category, args.amount, args.ticker, args.shares,
                      args.price_per_share, args.fee, args.currency, None))
        d2 == AddBalance(d1, args.account_id, args.amount)
        target_id == Unwrap(target)
        source_name == d2.accounts[args.account_id].name
        d3 == InsertTransaction(d2,
                  CounterpartRow(target_id, args.date, source_name, args.notes,
                                 args.amount))
        target_tx_id == NextRowId(TxIds(d2))
        d4 == SetLinked(d3, id, Some(target_tx_id))
        d5 == SetLinked(d4, target_tx_id, Some(id))
        d6 == AddBalance(d5, target_id, -args.amount)
    IN  IF fault = 1 \/ ~ForeignKeyOk(d, args.account_id) THEN Abort(d, d)
        ELSE IF fault = 2 THEN Abort(d, d1)
        ELSE IF ~IsSome(target)
             THEN IF fault = 7 THEN Abort(d, d2) ELSE Commit(d2)
        ELSE IF fault = 3 THEN Abort(d, d2)
        ELSE IF fault = 4 THEN Abort(d, d3)
        ELSE IF fault = 5 THEN Abort(d, d4)
        ELSE IF fault = 6 THEN Abort(d, d5)
        ELSE IF fault = 7 THEN Abort(d, d6)
        ELSE Commit(d6)

\* "{} {} shares of {}" of the investment operations
InvestmentNotes(is_buy, shares, ticker) ==
    <<IF is_buy THEN "Bought" ELSE "Sold", ToString(shares), "shares of", ticker>>

\* an amount of a trade with the fee added on a sale too
InvestmentAmountFeeAdded(is_buy, shares, price_per_share, fee) ==
    LET total_price == shares * price_per_share
    IN  IF is_buy THEN -(total_price + fee) ELSE total_price + fee

\* amount of a trade: buy -(total + fee), sell total - fee
InvestmentAmount(is_buy, shares, price_per_share, fee) ==
    LET total_price == shares * price_per_share
    IN  IF is_buy THEN -(total_price + fee) ELSE total_price - fee

\* shares stored for a trade
InvestmentShares(is_buy, shares) == IF is_buy THEN shares ELSE -shares

\* create_investment_transaction_db
CreateInvestmentTransactionDb(d, args, fault) ==
    LET amount == InvestmentAmount(args.is_buy, args.shares, args.price_per_share,
                                   args.fee)
        d1 == InsertTransaction(d,
                  Row(args.account_id, args.date,
                      IF args.is_buy THEN <<"Buy">> ELSE <<"Sell">>,
                      Some(InvestmentNotes(args.is_buy, args.shares, args.ticker)),
                      Some("Investment"), amount, Some(args.ticker),
                      Some(InvestmentShares(args.is_buy, args.shares)),
                      Some(args.price_per_share), Some(args.fee), args.currency,
                      None))
        d2 == AddBalance(d1, args.account_id, amount)
    IN  IF fault = 1 \/ ~ForeignKeyOk(d, args.account_id) THEN Abort(d, d)
        ELSE IF fault = 2 THEN Abort(d, d1)
        ELSE IF fault = 3 THEN Abort(d, d2)
        ELSE Commit(d2)

\* a reconciliation that on a move credits the new account and leaves the old
\* account's balance alone
ReconcileNoRevert(d, old_account_id, old_amount, account_id, amount) ==
    IF old_account_id = account_id
    THEN IF AbsGtEpsilon(amount - old_amount)
         THEN AddBalance(d, account_id, amount - old_amount)
         ELSE d
    ELSE AddBalance(d, account_id, amount)

\* a reconciliation that adds the new amount without taking the old one back
ReconcileFromZero(d, old_account_id, old_amount, account_id, amount) ==
    IF old_account_id = account_id
    THEN AddBalance(d, account_id, amount)
    ELSE AddBalance(AddBalance(d, old_account_id, -old_amount), account_id, amount)

\* a reconciliation that on a move applies the single difference to the new
\* account
ReconcileSingleDiff(d, old_account_id, old_amount, account_id, amount) ==
    IF AbsGtEpsilon(amount - old_amount)
    THEN AddBalance(d, account_id, amount - old_amount)
    ELSE d

\* a reconciliation that on a move takes the new amount, not the old one, from
\* the old account
ReconcileMoveNewAmount(d, old_account_id, old_amount, account_id, amount) ==
    IF old_account_id = account_id
    THEN IF AbsGtEpsilon(amount - old_amount)
         THEN AddBalance(d, account_id, amount - old_amount)
         ELSE d
    ELSE AddBalance(AddBalance(d, old_account_id, -amount), account_id, amount)

\* balance reconciliation of the two update operations: a difference on the
\* same account, or the old amount taken from the old account and the new
\* amount given to the new one
Reconcile(d, old_account_id, old_amount, account_id, amount) ==
    IF old_account_id = account_id
    THEN IF AbsGtEpsilon(amount - old_amount)
         THEN AddBalance(d, account_id, amount - old_amount)
         ELSE d
    ELSE AddBalance(AddBalance(d, old_account_id, -old_amount), account_id, amount)

\* a fallback query that matches the notes whatever the category
NotesMatchesAnyCategory(d, n, id) ==
    {j \in TxIds(d) : d.transactions[j].notes = Some(n) /\ j # id}

\* ids of the rows "WHERE notes = ?1 AND category = 'Transfer' AND id != ?2"
\* matches
NotesMatches(d, n, id) ==
    {j \in TxIds(d) : /\ d.transactions[j].notes = Some(n)
                      /\ d.transactions[j].category = Some("Transfer")
                      /\ j # id}

\* an operation without the notes fallback
FallbackRowsNever(d, notes, id) == {None}

\* the rows the notes fallback of update and delete may return for row `id`
\* carrying `notes` (the statements run before it change no other row)
FallbackRows(d, notes, id) ==
    IF IsSome(notes) THEN FirstRow(NotesMatches(d, Unwrap(notes), id)) ELSE {None}

\* a synchronisation that rewrites the counterpart and leaves its account's
\* balance alone
SyncCounterpartKeepBalance(d, counterpart_id, date, source_name, notes, amount, currency) ==
    [d EXCEPT !.transactions[counterpart_id] =
        [@ EXCEPT !.date = date, !.payee = source_name, !.notes = notes,
                  !.category = Some("Transfer"), !.amount = -amount,
                  !.currency = currency]]

\* a synchronisation that also takes the counterpart's linked reference away
SyncCounterpartUnlinked(d, counterpart_id, date, source_name, notes, amount, currency) ==
    [d EXCEPT !.transactions[counterpart_id] =
        [@ EXCEPT !.date = date, !.payee = source_name, !.notes = notes,
                  !.category = Some("Transfer"), !.amount = -amount,
                  !.currency = currency, !.linked_tx_id = None]]

\* "UPDATE transactions SET date, payee, notes, category, amount, currency" of
\* the counterpart, and its account's balance
SyncCounterpart(d, counterpart_id, date, source_name, notes, amount, currency) ==
    LET old_ctr_amount == d.transactions[counterpart_id].amount
        ctr_account_id == d.transactions[counterpart_id].account_id
        new_ctr_amount == -amount
        ctr_diff == new_ctr_amount - old_ctr_amount
        d1 == [d EXCEPT !.transactions[counterpart_id] =
                  [@ EXCEPT !.date = date, !.payee = source_name, !.notes = notes,
                            !.category = Some("Transfer"), !.amount = new_ctr_amount,
                            !.currency = currency]]
    IN  IF AbsGtEpsilon(ctr_diff) THEN AddBalance(d1, ctr_account_id, ctr_diff) ELSE d1

\* update_transaction_db; `found` is the row the notes fallback returned
UpdateTransactionDb(d, args, found, fault) ==
    LET id == args.id
        old_amount == d.transactions[id].amount
        old_account_id == d.transactions[id].account_id
        d1 == [d EXCEPT !.transactions[id] =
                  [@ EXCEPT !.account_id = args.account_id, !.date = args.date,
                            !.payee = args.payee, !.notes = args.notes,
                            !.category = args.category, !.amount = args.amount,
                            !.currency = args.currency]]
        d2 == Reconcile(d1, old_account_id, old_amount, args.account_id, args.amount)
        linked == d2.transactions[id].linked_tx_id
        fallback == ~IsSome(linked) /\ IsSome(args.notes) /\ IsSome(found)
        counterpart_id_opt == IF IsSome(linked) THEN linked
                              ELSE IF fallback THEN found ELSE None
        d3 == IF fallback
              THEN SetLinked(SetLinked(d2, id, found), Unwrap(found), Some(id))
              ELSE d2
        counterpart_id == Unwrap(counterpart_id_opt)
        source_name == d3.accounts[args.account_id].name
        d4 == IF IsSome(counterpart_id_opt) /\ counterpart_id \in TxIds(d3)
              THEN SyncCounterpart(d3, counterpart_id, args.date, source_name,
                                   args.notes, args.amount, args.currency)
              ELSE d3
    IN  IF fault = 1 THEN Abort(d, d)
        ELSE IF id \notin TxIds(d) THEN NoSuchTransaction(d)
        ELSE IF fault = 2 \/ ~ForeignKeyOk(d, args.account_id) THEN Abort(d, d)
        ELSE IF fault = 3 THEN Abort(d, d1)
        ELSE IF fault = 4 THEN Abort(d, d2)
        ELSE IF fault = 5 /\ fallback THEN Abort(d, SetLinked(d2, id, found))
        ELSE IF fault = 6 /\ IsSome(counterpart_id_opt) THEN Abort(d, d3)
        ELSE IF fault = 7 THEN Abort(d, d4)
        ELSE Commit(d4)

\* an update of a trade that synchronises the linked row the way
\* update_transaction_db does
UpdateInvestmentTransactionDbSynced(d, args, fault) ==
    LET id == args.id
        amount == InvestmentAmount(args.is_buy, args.shares, args.price_per_share,
                                   args.fee)
        d1 == [d EXCEPT !.transactions[id] =
                  [@ EXCEPT !.account_id = args.account_id, !.amount = amount]]
        d2 == Reconcile(d1, d.transactions[id].account_id, d.transactions[id].amount,
                        args.account_id, amount)
        linked == d.transactions[id].linked_tx_id
    IN  IF fault # 0 THEN Abort(d, d)
        ELSE IF id \notin TxIds(d) THEN NoSuchTransaction(d)
        ELSE IF ~ForeignKeyOk(d, args.account_id) THEN Abort(d, d)
        ELSE IF IsSome(linked) /\ Unwrap(linked) \in TxIds(d)
             THEN Commit(SyncCounterpart(d2, Unwrap(linked), args.date,
                                         d.accounts[args.account_id].name,
                                         args.notes, amount, args.currency))
        ELSE Commit(d2)

\* update_investment_transaction_db
UpdateInvestmentTransactionDb(d, args, fault) ==
    LET id == args.id
        old_amount == d.transactions[id].amount
        old_account_id == d.transactions[id].account_id
        amount == InvestmentAmount(args.is_buy, args.shares, args.price_per_share,
                                   args.fee)
        final_notes == IF IsSome(args.notes) THEN Unwrap(args.notes)
                       ELSE InvestmentNotes(args.is_buy, args.shares, args.ticker)
        d1 == [d EXCEPT !.transactions[id] =
                  [@ EXCEPT !.account_id = args.account_id, !.date = args.date,
                            !.payee = IF args.is_buy THEN <<"Buy">> ELSE <<"Sell">>,
                            !.notes = Some(final_notes),
                            !.category = Some("Investment"), !.amount = amount,
                            !.ticker = Some(args.ticker),
                            !.shares = Some(InvestmentShares(args.is_buy, args.shares)),
                            !.price_per_share = Some(args.price_per_share),
                            !.fee = Some(args.fee), !.currency = args.currency]]
        d2 == Reconcile(d1, old_account_id, old_amount, args.account_id, amount)
    IN  IF fault = 1 THEN Abort(d, d)
        ELSE IF id \notin TxIds(d) THEN NoSuchTransaction(d)
        ELSE IF fault = 2 \/ ~ForeignKeyOk(d, args.account_id) THEN Abort(d, d)
        ELSE IF fault = 3 THEN Abort(d, d1)
        ELSE IF fault = 4 THEN Abort(d, d2)
        ELSE Commit(d2)

\* a removal of the counterpart that leaves its account's balance alone
RemoveCounterpartKeepBalance(d, ctr_id) == DeleteRow(d, ctr_id)

\* the counterpart's removal: its row deleted, its stored amount taken from
\* its own account
RemoveCounterpart(d, ctr_id) ==
    AddBalance(DeleteRow(d, ctr_id), d.transactions[ctr_id].account_id,
               -d.transactions[ctr_id].amount)

\* delete_transaction_db; `found` is the row the notes fallback returned
DeleteTransactionDb(d, id, found, fault) ==
    LET amount == d.transactions[id].amount
        account_id == d.transactions[id].account_id
        notes == d.transactions[id].notes
        linked == d.transactions[id].linked_tx_id
        d1 == DeleteRow(d, id)
        d2 == AddBalance(d1, account_id, -amount)
        counterpart == IF IsSome(linked)
                       THEN IF Unwrap(linked) \in TxIds(d2) THEN linked ELSE None
                       ELSE IF IsSome(notes) THEN found ELSE None
        ctr_id == Unwrap(counterpart)
        d3 == DeleteRow(d2, ctr_id)
        d4 == RemoveCounterpart(d2, ctr_id)
    IN  IF fault = 1 THEN Abort(d, d)
        ELSE IF id \notin TxIds(d) THEN NoSuchTransaction(d)
        ELSE IF fault = 2 THEN Abort(d, d1)
        ELSE IF ~IsSome(counterpart)
             THEN IF fault = 5 THEN Abort(d, d2) ELSE Commit(d2)
        ELSE IF fault = 3 THEN Abort(d, d2)
        ELSE IF fault = 4 THEN Abort(d, d3)
        ELSE IF fault = 5 THEN Abort(d, d4)
        ELSE Commit(d4)

\* ------------------------------------------------------- rates (f64 values)

Abs(x) == IF x < 0 THEN -x ELSE x

RECURSIVE Gcd(_, _)
Gcd(a, b) == IF b = 0 THEN a ELSE Gcd(b, a % b)

\* the fraction n/d (d # 0) in lowest terms
Frac(n, d) ==
    LET g == Gcd(Abs(n), Abs(d))
        sign == IF d < 0 THEN -1 ELSE 1
    IN  <<(sign * n) \div g, (sign * d) \div g>>

FromInt(k) == <<k, 1>>

One == FromInt(1)

Zero == FromInt(0)

FracMul(a, b) == Frac(a[1] * b[1], a[2] * b[2])

\* a / b for b other than zero
FracDiv(a, b) == Frac(a[1] * b[2], a[2] * b[1])

FracAdd(a, b) == Frac(a[1] * b[2] + b[1] * a[2], a[2] * b[2])

\* r > 0.0
GtZero(r) == r[1] > 0

\* r == 0.0
IsZero(r) == r[1] = 0

\* HashMap::get
Get(map, key) == IF key \in DOMAIN map THEN Some(map[key]) ELSE None

\* HashMap::insert, INSERT OR REPLACE
Insert(map, key, value) == (key :> value) @@ map

\* ------------------------------------------------------- currency resolver

\* format!("{}{}=X", src, dst)
DirectTicker(src, dst) == src \o dst \o "=X"

\* format!("{}USD=X", curr)
UsdTicker(curr) == curr \o "USD=X"

\* a pivot that reads the live rate before the override
GetRateToUsdLiveFirst(curr, rates, custom_rates) ==
    IF curr = "USD" THEN One
    ELSE IF IsSome(Get(rates, UsdTicker(curr))) THEN Unwrap(Get(rates, UsdTicker(curr)))
    ELSE IF IsSome(Get(custom_rates, curr)) THEN Unwrap(Get(custom_rates, curr))
    ELSE One

\* a pivot that takes a missing live rate as 0
GetRateToUsdDefaultZero(curr, rates, custom_rates) ==
    IF curr = "USD" THEN One
    ELSE IF IsSome(Get(custom_rates, curr)) THEN Unwrap(Get(custom_rates, curr))
    ELSE IF IsSome(Get(rates, UsdTicker(curr))) THEN Unwrap(Get(rates, UsdTicker(curr)))
    ELSE Zero

\* the closure get_rate_to_usd
GetRateToUsd(curr, rates, custom_rates) ==
    IF curr = "USD" THEN One
    ELSE IF IsSome(Get(custom_rates, curr)) THEN Unwrap(Get(custom_rates, curr))
    ELSE IF IsSome(Get(rates, UsdTicker(curr))) THEN Unwrap(Get(rates, UsdTicker(curr)))
    ELSE One

\* a direct pair that is never found
DirectRateNever(src, dst, rates) == None

\* the direct pair `src dst =X` of the live rates, when it is above 0
DirectRate(src, dst, rates) ==
    LET r == Get(rates, DirectTicker(src, dst))
    IN  IF IsSome(r) /\ GtZero(Unwrap(r)) THEN r ELSE None

\* the closure compute_rate
ComputeRate(src, dst, rates, custom_rates) ==
    LET direct == DirectRate(src, dst, rates)
        r_src == GetRateToUsd(src, rates, custom_rates)
        r_dst == GetRateToUsd(dst, rates, custom_rates)
    IN  IF src = dst THEN One
        ELSE IF IsSome(direct) THEN Unwrap(direct)
        ELSE IF IsZero(r_dst) THEN One
        ELSE FracDiv(r_src, r_dst)

\* set_custom_exchange_rate: one INSERT OR REPLACE on its own connection
SetCustomExchangeRateDb(d, currency, rate, fault) ==
    IF fault = 1 THEN Err(d)
    ELSE Commit([d EXCEPT !.custom_exchange_rates = Insert(@, currency, rate)])

\* get_custom_rates_map
GetCustomRatesMap(d) == d.custom_exchange_rates

\* ------------------------------------------------------ balance aggregator

\* get_accounts_db: the accounts in rowid order, each with exchange_rate 1.0
GetAccountsDb(d) ==
    LET ids == AccountIds(d)
        Nth(i) == CHOOSE a \in ids : Cardinality({b \in ids : b < a}) = i - 1
    IN  [i \in 1..Cardinality(ids) |->
            [id |-> Nth(i), name |-> d.accounts[Nth(i)].name,
             balance |-> FromInt(d.accounts[Nth(i)].balance),
             currency |-> d.accounts[Nth(i)].currency,
             exchange_rate |-> One]]

RECURSIVE SumOver(_, _)
\* the sum of f over the finite set S
SumOver(f, S) ==
    IF S = {} THEN Zero
    ELSE LET x == CHOOSE y \in S : TRUE
         IN  FracAdd(f[x], SumOver(f, S \ {x}))

\* curr_opt.unwrap_or_else(|| target.to_string())
NullCurrencyAsTarget(d, account_id, target) == target

\* get_accounts_summary_db: SELECT account_id, currency, SUM(amount) ... GROUP
\* BY account_id, currency; one tuple per group, a NULL currency replaced
RawData(d, target) ==
    LET groups == {<<d.transactions[t].account_id, d.transactions[t].currency>> :
                      t \in TxIds(d)}
        rows(g) == {t \in TxIds(d) : /\ d.transactions[t].account_id = g[1]
                                     /\ d.transactions[t].currency = g[2]}
        amt == [t \in TxIds(d) |-> FromInt(d.transactions[t].amount)]
    IN  [g \in groups |->
            [acc_id |-> g[1],
             currency |-> IF IsSome(g[2]) THEN Unwrap(g[2])
                          ELSE NullCurrencyAsTarget(d, g[1], target),
             amount |-> SumOver(amt, rows(g))]]

\* account_currency_map.get(&acc_id) ... .unwrap_or(target)
AccCurrency(accounts, acc_id, target) ==
    LET with == {i \in DOMAIN accounts :
                    accounts[i].id = acc_id /\ IsSome(accounts[i].currency)}
    IN  IF with = {} THEN target ELSE Unwrap(accounts[SetMax(with)].currency)

\* an account without a tuple reported with balance 0
NoSumIsZero(acc) == Zero

\* an account without a tuple keeps the balance it came with
NoSum(acc) == acc.balance

\* calculate_account_balances
CalculateAccountBalances(accounts, raw_data, target, rates, custom_rates) ==
    LET val == [k \in DOMAIN raw_data |->
                   FracMul(raw_data[k].amount,
                           ComputeRate(raw_data[k].currency,
                                       AccCurrency(accounts, raw_data[k].acc_id, target),
                                       rates, custom_rates))]
        of(id) == {k \in DOMAIN raw_data : raw_data[k].acc_id = id}
    IN  [i \in DOMAIN accounts |->
            [accounts[i] EXCEPT
                !.balance = IF of(accounts[i].id) # {}
                            THEN SumOver(val, of(accounts[i].id))
                            ELSE NoSum(accounts[i]),
                !.exchange_rate =
                    IF IsSome(accounts[i].currency)
                    THEN ComputeRate(Unwrap(accounts[i].currency), target,
                                     rates, custom_rates)
                    ELSE One]]

\* target_currency.unwrap_or_else(|| "USD".to_string())
TargetOf(target_currency) == IF IsSome(target_currency) THEN Unwrap(target_currency) ELSE "USD"

\* get_accounts: the rate-pair identifiers it asks the market-data service for
TickersToFetch(accounts, raw_data, target, custom_rates) ==
    LET all_currencies ==
            {target}
            \cup {Unwrap(accounts[i].currency) :
                     i \in {j \in DOMAIN accounts : IsSome(accounts[j].currency)}}
            \cup {raw_data[k].currency : k \in DOMAIN raw_data}
        yahoo_currencies ==
            {c \in all_currencies : c # "USD" /\ c \notin DOMAIN custom_rates}
        is_yahoo_or_usd(c) == c = "USD" \/ c \in yahoo_currencies
        pairs ==
            {<<raw_data[k].currency, AccCurrency(accounts, raw_data[k].acc_id, target)>> :
                 k \in DOMAIN raw_data}
            \cup {<<Unwrap(accounts[i].currency), target>> :
                     i \in {j \in DOMAIN accounts : IsSome(accounts[j].currency)}}
    IN  {UsdTicker(c) : c \in yahoo_currencies}
        \cup {DirectTicker(pr[1], pr[2]) :
                 pr \in {q \in pairs : /\ q[1] # q[2]
                                       /\ is_yahoo_or_usd(q[1])
                                       /\ is_yahoo_or_usd(q[2])}}

\* get_accounts, given the quotes the market-data service returned
GetAccountsDone(d, target_currency, rates) ==
    LET target == TargetOf(target_currency)
        accounts == GetAccountsDb(d)
        raw_data == RawData(d, target)
    IN  CalculateAccountBalances(accounts, raw_data, target, rates,
                                 GetCustomRatesMap(d))

\* ------------------------------------------------------------ the inputs

NameInputs == {<<"A">>, <<"B">>, <<"b">>, <<" ", "A">>, <<" ">>}

\* the names renameAccount is called with
NewNameInputs == {<<"b">>, <<" ", UpperEAcute>>, <<" ">>}

\* the names updateAccount is called with
UpdateNameInputs == {<<LowerEAcute>>, <<" ">>}

Payees == {<<"A">>, <<"B">>, <<"b">>}

NotesInputs == {None, Some(<<"n">>)}


Amounts == {-1, 2}

OpeningBalances == {0, 5}

Today == "2024-01-03"

CreateDate == "2024-01-01"

UpdateDate == "2024-01-02"

AccountCurrency == Some("EUR")

CreateCurrency == Some("EUR")

UpdateCurrency == Some("USD")

NewAccountCurrency == Some("USD")

\* the ids an operation is called with: every row of the table and one id
\* that names no row
IdInputs(ids) == ids \cup {NextRowId(ids)}

\* createTransaction's arguments: a new transaction entered on an account
CreateTransactionArgs(d) ==
    [account_id : IdInputs(AccountIds(d)), date : {CreateDate}, payee : Payees,
     notes : NotesInputs, category : {Some("Food")}, amount : {2},
     ticker : {None}, shares : {None}, price_per_share : {None}, fee : {None},
     currency : {CreateCurrency}]

\* the fields of row `id` as updateTransaction's arguments
Stored(d, id) ==
    LET r == d.transactions[id]
    IN  [id |-> id, account_id |-> r.account_id, date |-> r.date,
         payee |-> r.payee, notes |-> r.notes, category |-> r.category,
         amount |-> r.amount, currency |-> r.currency]

\* updateTransaction's arguments: a stored row sent back unchanged, or with
\* one edit (its amount, its account, or its texts), and a call with an id
\* that names no row
UpdateTransactionArgs(d) ==
    UNION {
        {Stored(d, id)}
        \cup {[Stored(d, id) EXCEPT !.amount = a, !.date = UpdateDate,
                                    !.currency = UpdateCurrency] : a \in Amounts}
        \cup {[Stored(d, id) EXCEPT !.account_id = a] :
                 a \in IdInputs(AccountIds(d)) \ {d.transactions[id].account_id}}
        \cup {[Stored(d, id) EXCEPT !.notes = n, !.category = Some("Food"),
                                    !.payee = <<"b">>] : n \in NotesInputs}
        : id \in TxIds(d)}
    \cup {[id |-> NextRowId(TxIds(d)), account_id |-> a, date |-> UpdateDate,
           payee |-> <<"b">>, notes |-> None, category |-> None, amount |-> 2,
           currency |-> UpdateCurrency] : a \in AccountIds(d)}

CreateInvestmentTransactionArgs(d) ==
    [account_id : IdInputs(AccountIds(d)), date : {CreateDate}, ticker : {"X"},
     shares : {1}, price_per_share : {2}, fee : {1}, is_buy : BOOLEAN,
     currency : {CreateCurrency}]

UpdateInvestmentTransactionArgs(d) ==
    [id : IdInputs(TxIds(d)), account_id : AccountIds(d),
     date : {UpdateDate}, ticker : {"X"}, shares : {1}, price_per_share : {2},
     fee : {1}, is_buy : BOOLEAN, notes : {None}, currency : {UpdateCurrency}]

\* ------------------------------------------------------------ the machine

\* the store after createAccount("A", 0) and createAccount("B", 0)
TwoAccounts ==
    CreateAccountDb(
        CreateAccountDb(EmptyDb, <<"A">>, 0, AccountCurrency, None, Today, 0).db,
        <<"B">>, 0, AccountCurrency, None, Today, 0).db

\* the currency codes of the accounts, transactions and target
Currencies == {"USD", "EUR", "GBP"}

\* override rates a user can enter: set_custom_exchange_rate accepts any f64
OverrideValues == {FromInt(-1), Zero, FromInt(2)}

\* prices the market-data service can report; 0.0 stands for a quote without
\* a price (regular_market_price.unwrap_or(0.0))
LiveValues == {Zero, FromInt(3)}

\* the rate-pair identifiers that can be present in the live rates
LiveTickers == {DirectTicker("EUR", "GBP"), UsdTicker("EUR"), UsdTicker("GBP")}

\* the maps from some of the keys to the values
PartialMaps(keys, values) == UNION {[S -> values] : S \in SUBSET keys}

\* createTransaction's arguments for an amount entered with a given currency
CurrencyArgs(account_id, currency) ==
    [account_id |-> account_id, date |-> CreateDate, payee |-> <<"b">>,
     notes |-> None, category |-> Some("Food"), amount |-> 2, ticker |-> None,
     shares |-> None, price_per_share |-> None, fee |-> None,
     currency |-> currency]

\* a store with one account "A" of the given currency, created with the given
\* opening balance, and one transaction of 2 entered with the given currency
OneAccountStore(account_currency, opening, tx_currency) ==
    CreateTransactionDb(
        CreateAccountDb(EmptyDb, <<"A">>, opening, account_currency, None, Today, 0).db,
        CurrencyArgs(1, tx_currency), None, 0).db

\* the stores the account summary is computed from
SummaryStores ==
    {EmptyDb, TwoAccounts,
     OneAccountStore(Some("EUR"), 5, None),
     OneAccountStore(Some("EUR"), 0, None),
     OneAccountStore(None, 5, None),
     OneAccountStore(Some("GBP"), 0, Some("EUR"))}

\* calculate_account_balances' accounts argument: one Account
AccountsInputs ==
    {<<[id |-> 1, name |-> <<"A">>, balance |-> b, currency |-> c,
        exchange_rate |-> One]>> :
        b \in {Zero, FromInt(5)}, c \in {None, Some("GBP")}}

\* calculate_account_balances' raw_data argument: no tuple, tuples of the
\* account in two currencies, a tuple of another account
RawDataInputs ==
    {<<>>,
     <<[acc_id |-> 1, currency |-> "EUR", amount |-> FromInt(2)],
       [acc_id |-> 1, currency |-> "USD", amount |-> FromInt(1)]>>,
     <<[acc_id |-> 2, currency |-> "EUR", amount |-> FromInt(2)]>>}

\* `last` is the call that led to the state: the operation, whether it returned
\* Ok, the transaction or account id it addressed or created, the statement
\* that met a store error (0: none), the arguments of a call that returned
\* Ok, for createTransaction and deleteTransaction the balances it found, and
\* for the update and delete of a transaction, and the rename and update of
\* an account, the row it found, and the Account that the create, rename and
\* update of an account return.
\* A behaviour starts from the empty store that init_db leaves or from the
\* store with two accounts, makes at most MaxOps calls that return Ok, and
\* ends at the first call that returns an error.
\* the callers whose calls can be under way at the same time, each on its own
\* connection
Callers == {1, 2}

\* inflight[c] is the call of caller c that has run its duplicate check and
\* not yet its write, if there is one
NoCalls == [c \in Callers |-> None]

Init ==
    /\ db \in {EmptyDb, TwoAccounts}
    /\ last = [op |-> "init", ok |-> TRUE, id |-> 0, fault |-> 0,
               args |-> None, before |-> None, old |-> None, ret |-> None]
    /\ nops = 0
    /\ inflight = NoCalls

OldRow(d, id) == IF id \in TxIds(d) THEN Some(d.transactions[id]) ELSE None

Balances(d) == [a \in AccountIds(d) |-> d.accounts[a].balance]

\* the return of a call: its result `r` becomes the store
Done(op, id, fault, args, before, old, r) ==
    /\ db' = r.db
    /\ last' = [op |-> op, ok |-> r.ok, id |-> id,
                fault |-> IF r.ok THEN 0 ELSE fault,
                args |-> IF r.ok THEN Some(args) ELSE None,
                before |-> IF r.ok THEN before ELSE None,
                old |-> IF r.ok THEN old ELSE None,
                ret |-> IF r.ok /\ "value" \in DOMAIN r THEN Some(r.value)
                        ELSE None]
    /\ nops' = IF r.ok THEN nops + 1 ELSE nops

\* one call of an operation, from its first statement to its return
Call(op, id, fault, args, before, old, r) ==
    /\ Done(op, id, fault, args, before, old, r)
    /\ inflight' = inflight

CreateAccount ==
    /\ last.ok /\ nops < MaxOps
    /\ \E name \in NameInputs, balance \in OpeningBalances, fault \in 0..3 :
        \E dup \in FirstRow(SameNameIgnoringCase(db, Trim(name))) :
            Call("createAccount", NextRowId(AccountIds(db)), fault,
                 [name |-> name, balance |-> balance, currency |-> AccountCurrency],
                 None, None,
                 CreateAccountDb(db, name, balance, AccountCurrency, dup, Today,
                                 fault))

DeleteAccount ==
    /\ last.ok /\ nops < MaxOps
    /\ \E id \in IdInputs(AccountIds(db)), fault \in 0..3 :
        Call("deleteAccount", id, fault, [id |-> id], None, None,
             DeleteAccountDb(db, id, fault))

OldAccount(d, id) == IF id \in AccountIds(d) THEN Some(d.accounts[id]) ELSE None

RenameAccount ==
    /\ last.ok /\ nops < MaxOps
    /\ \E id \in IdInputs(AccountIds(db)), new_name \in NewNameInputs,
          fault \in 0..3 :
        \E dup \in FirstRow(SameNameIgnoringCase(db, Trim(new_name))) :
            Call("renameAccount", id, fault, [id |-> id, new_name |-> new_name],
                 None, OldAccount(db, id),
                 RenameAccountDb(db, id, new_name, dup, fault))

UpdateAccount ==
    /\ last.ok /\ nops < MaxOps
    /\ \E id \in IdInputs(AccountIds(db)), name \in UpdateNameInputs,
          fault \in 0..3 :
        \E dup \in FirstRow(SameNameIgnoringCase(db, Trim(name))) :
            Call("updateAccount", id, fault,
                 [id |-> id, name |-> name, currency |-> NewAccountCurrency],
                 None, OldAccount(db, id),
                 UpdateAccountDb(db, id, name, NewAccountCurrency, dup, fault))

CreateTransaction ==
    /\ last.ok /\ nops < MaxOps
    /\ \E args \in CreateTransactionArgs(db), fault \in 0..7 :
        \E target \in FirstRow(TransferTargets(db, args.payee, args.account_id)) :
            Call("createTransaction", NextRowId(TxIds(db)), fault,
                 args, Some(Balances(db)), None,
                 CreateTransactionDb(db, args, target, fault))

CreateInvestmentTransaction ==
    /\ last.ok /\ nops < MaxOps
    /\ \E args \in CreateInvestmentTransactionArgs(db), fault \in 0..3 :
        Call("createInvestmentTransaction", NextRowId(TxIds(db)), fault, args,
             None, None, CreateInvestmentTransactionDb(db, args, fault))

UpdateTransaction ==
    /\ last.ok /\ nops < MaxOps
    /\ \E args \in UpdateTransactionArgs(db), fault \in 0..7 :
        \E found \in FallbackRows(db, args.notes, args.id) :
            Call("updateTransaction", args.id, fault, args, None, OldRow(db, args.id),
                 UpdateTransactionDb(db, args, found, fault))

UpdateInvestmentTransaction ==
    /\ last.ok /\ nops < MaxOps
    /\ \E args \in UpdateInvestmentTransactionArgs(db), fault \in 0..4 :
        Call("updateInvestmentTransaction", args.id, fault, args, None,
             OldRow(db, args.id), UpdateInvestmentTransactionDb(db, args, fault))

DeleteTransaction ==
    /\ last.ok /\ nops < MaxOps
    /\ \E id \in IdInputs(TxIds(db)), fault \in 0..5 :
        \E found \in FallbackRows(db,
                        IF id \in TxIds(db) THEN db.transactions[id].notes ELSE None,
                        id) :
            Call("deleteTransaction", id, fault, [id |-> id], Some(Balances(db)),
                 OldRow(db, id),
                 DeleteTransactionDb(db, id, found, fault))

\* the operations that only read.  Such a call leaves the store as it was, so
\* the behaviours that go on after it are those that go on from the state
\* before it: the state after a read has no successor of its own.
ReadOps == {"computeRate", "calculateAccountBalances", "getAccounts"}

Idle == last.ok /\ last.op \notin ReadOps

\* one call of an operation that only reads
Read(op, ok, args, value) ==
    /\ db' = db
    /\ last' = [op |-> op, ok |-> ok, id |-> 0, fault |-> IF ok THEN 0 ELSE 1,
                args |-> IF ok THEN Some(args) ELSE None,
                before |-> None, old |-> None,
                ret |-> IF ok THEN Some(value) ELSE None]
    /\ nops' = nops
    /\ inflight' = inflight

SetCustomExchangeRate ==
    /\ Idle /\ nops < MaxOps
    /\ \E currency \in Currencies, rate \in OverrideValues, fault \in 0..1 :
        Call("setCustomExchangeRate", 0, fault,
             [currency |-> currency, rate |-> rate], None, None,
             SetCustomExchangeRateDb(db, currency, rate, fault))

\* compute_rate applied to a pair of currencies, the live rates and the
\* override rates of the store
ResolveRate ==
    /\ Idle
    /\ \E src \in Currencies, dst \in Currencies,
          rates \in PartialMaps(LiveTickers, LiveValues) :
        Read("computeRate", TRUE,
             [src |-> src, dst |-> dst, rates |-> rates,
              custom_rates |-> GetCustomRatesMap(db)],
             ComputeRate(src, dst, rates, GetCustomRatesMap(db)))

\* calculate_account_balances applied to arguments of the caller
ComputeBalances ==
    /\ Idle
    /\ \E accounts \in AccountsInputs, raw_data \in RawDataInputs,
          target \in {"USD", "EUR"},
          rates \in PartialMaps(LiveTickers, LiveValues) :
        Read("calculateAccountBalances", TRUE,
             [accounts |-> accounts, raw_data |-> raw_data, target |-> target,
              rates |-> rates, custom_rates |-> GetCustomRatesMap(db)],
             CalculateAccountBalances(accounts, raw_data, target, rates,
                                      GetCustomRatesMap(db)))

\* get_accounts: the summary of the store, the quotes of the market-data
\* service for some of the identifiers asked for, the balances; the request
\* for quotes can fail
GetAccounts ==
    /\ Idle
    /\ \E target_currency \in {None, Some("EUR"), Some("GBP")}, ok \in BOOLEAN :
        LET target == TargetOf(target_currency)
            asked == TickersToFetch(GetAccountsDb(db), RawData(db, target), target,
                                    GetCustomRatesMap(db))
        IN  \E rates \in PartialMaps(asked, LiveValues) :
                Read("getAccounts", ok,
                     [target |-> target, rates |-> rates],
                     GetAccountsDone(db, target_currency, rates))

\* ---- the account operations statement by statement, for callers that run
\* ---- at the same time

\* names the concurrent callers ask for
ConcurrentNames == {<<"b">>, <<" ", "B">>, <<" ">>}

\* create_account_db up to its duplicate check: the name is not empty and the
\* SELECT returned no row
CreateCheck(name, dup) == Trim(name) # <<>> /\ ~IsSome(dup)

\* rename_account_db and update_account_db up to their duplicate check: the
\* name is not empty and the SELECT returned no row of another account
RenameCheck(id, name, dup) == Trim(name) # <<>> /\ ~(IsSome(dup) /\ Unwrap(dup) # id)

\* the call of caller c has passed its check and waits for its write
Pending(c, call) ==
    /\ inflight' = [inflight EXCEPT ![c] = Some(call)]
    /\ UNCHANGED <<db, last, nops>>

\* create_account_db: validation and duplicate check (lines 404-422)
BeginCreateAccount ==
    /\ last.ok /\ nops < MaxOps
    /\ \E c \in Callers, name \in ConcurrentNames :
        /\ inflight[c] = None
        /\ \E dup \in FirstRow(SameNameIgnoringCase(db, Trim(name))) :
            IF CreateCheck(name, dup)
            THEN Pending(c, [op |-> "createAccount", id |-> 0, name |-> name,
                             dup |-> dup])
            ELSE Call("createAccount", NextRowId(AccountIds(db)), 0,
                      [name |-> name, balance |-> 0, currency |-> AccountCurrency],
                      None, None, Err(db))

\* create_account_db: the Transaction with the INSERT (lines 424-465)
FinishCreateAccount ==
    /\ last.ok
    /\ \E c \in Callers :
        /\ IsSome(inflight[c]) /\ Unwrap(inflight[c]).op = "createAccount"
        /\ LET call == Unwrap(inflight[c])
           IN  Done("createAccount", NextRowId(AccountIds(db)), 0,
                    [name |-> call.name, balance |-> 0, currency |-> AccountCurrency],
                    None, None,
                    CreateAccountDb(db, call.name, 0, AccountCurrency, call.dup,
                                    Today, 0))
        /\ inflight' = [inflight EXCEPT ![c] = None]

\* rename_account_db: validation and duplicate check (lines 479-500)
BeginRenameAccount ==
    /\ last.ok /\ nops < MaxOps
    /\ \E c \in Callers, id \in AccountIds(db), name \in ConcurrentNames :
        /\ inflight[c] = None
        /\ \E dup \in FirstRow(SameNameIgnoringCase(db, Trim(name))) :
            IF RenameCheck(id, name, dup)
            THEN Pending(c, [op |-> "renameAccount", id |-> id, name |-> name,
                             dup |-> dup])
            ELSE Call("renameAccount", id, 0, [id |-> id, new_name |-> name],
                      None, OldAccount(db, id), Err(db))

\* rename_account_db: the UPDATE and the read-back (lines 502-524)
FinishRenameAccount ==
    /\ last.ok
    /\ \E c \in Callers :
        /\ IsSome(inflight[c]) /\ Unwrap(inflight[c]).op = "renameAccount"
        /\ LET call == Unwrap(inflight[c])
           IN  Done("renameAccount", call.id, 0,
                    [id |-> call.id, new_name |-> call.name],
                    None, OldAccount(db, call.id),
                    RenameAccountDb(db, call.id, call.name, call.dup, 0))
        /\ inflight' = [inflight EXCEPT ![c] = None]

\* update_account_db: validation and duplicate check (lines 539-560)
BeginUpdateAccount ==
    /\ last.ok /\ nops < MaxOps
    /\ \E c \in Callers, id \in AccountIds(db), name \in ConcurrentNames :
        /\ inflight[c] = None
        /\ \E dup \in FirstRow(SameNameIgnoringCase(db, Trim(name))) :
            IF RenameCheck(id, name, dup)
            THEN Pending(c, [op |-> "updateAccount", id |-> id, name |-> name,
                             dup |-> dup])
            ELSE Call("updateAccount", id, 0,
                      [id |-> id, name |-> name, currency |-> NewAccountCurrency],
                      None, OldAccount(db, id), Err(db))

\* update_account_db: the UPDATE and the read-back (lines 562-584)
FinishUpdateAccount ==
    /\ last.ok
    /\ \E c \in Callers :
        /\ IsSome(inflight[c]) /\ Unwrap(inflight[c]).op = "updateAccount"
        /\ LET call == Unwrap(inflight[c])
           IN  Done("updateAccount", call.id, 0,
                    [id |-> call.id, name |-> call.name,
                     currency |-> NewAccountCurrency],
                    None, OldAccount(db, call.id),
                    UpdateAccountDb(db, call.id, call.name, NewAccountCurrency,
                                    call.dup, 0))
        /\ inflight' = [inflight EXCEPT ![c] = None]

Next ==
    \/ CreateAccount
    \/ RenameAccount
    \/ UpdateAccount
    \/ DeleteAccount
    \/ CreateTransaction
    \/ CreateInvestmentTransaction
    \/ UpdateTransaction
    \/ UpdateInvestmentTransaction
    \/ DeleteTransaction

Spec == Init /\ [][Next]_vars

\* the transaction operations of the ledger alone, on accounts that stay
NextTransactions ==
    \/ CreateAccount
    \/ CreateTransaction
    \/ UpdateTransaction
    \/ DeleteTransaction

SpecTransactions == Init /\ [][NextTransactions]_vars

\* createTransaction's arguments for a row of account 1 with the given payee
\* and notes
RowArgs(payee, notes) ==
    [account_id |-> 1, date |-> CreateDate, payee |-> payee, notes |-> notes,
     category |-> Some("Food"), amount |-> 2, ticker |-> None, shares |-> None,
     price_per_share |-> None, fee |-> None, currency |-> CreateCurrency]

\* the store after createTransaction of a plain row on A and of a transfer
\* from A to B that carries notes
RowAndPair ==
    CreateTransactionDb(
        CreateTransactionDb(TwoAccounts, RowArgs(<<"b">>, None), None, 0).db,
        RowArgs(<<"B">>, Some(<<"n">>)), Some(2), 0).db

\* the store after createAccount("A", 0), createAccount("b", 0) and
\* createTransaction of a plain row on A
RowBesideAccount ==
    CreateTransactionDb(
        CreateAccountDb(
            CreateAccountDb(EmptyDb, <<"A">>, 0, AccountCurrency, None, Today, 0).db,
            <<"b">>, 0, AccountCurrency, None, Today, 0).db,
        RowArgs(<<"B">>, None), None, 0).db

\* updateTransaction and deleteTransaction on a ledger that createTransaction
\* calls have filled
InitLedger ==
    /\ db \in {RowAndPair, RowBesideAccount}
    /\ last = [op |-> "init", ok |-> TRUE, id |-> 0, fault |-> 0,
               args |-> None, before |-> None, old |-> None, ret |-> None]
    /\ nops = 0
    /\ inflight = NoCalls

NextLedger ==
    \/ UpdateTransaction
    \/ DeleteTransaction

SpecLedger == InitLedger /\ [][NextLedger]_vars

\* the currency resolver and the balance aggregator on their own
InitRates ==
    /\ db \in SummaryStores
    /\ last = [op |-> "init", ok |-> TRUE, id |-> 0, fault |-> 0,
               args |-> None, before |-> None, old |-> None, ret |-> None]
    /\ nops = 0
    /\ inflight = NoCalls

NextRates ==
    \/ SetCustomExchangeRate
    \/ ResolveRate
    \/ ComputeBalances
    \/ GetAccounts

SpecRates == InitRates /\ [][NextRates]_vars

\* the account operations of callers that run at the same time
NextConcurrent ==
    \/ BeginCreateAccount
    \/ FinishCreateAccount
    \/ BeginRenameAccount
    \/ FinishRenameAccount
    \/ BeginUpdateAccount
    \/ FinishUpdateAccount

SpecConcurrent == Init /\ [][NextConcurrent]_vars

\* ---- get_accounts request by request: one task per rate-pair identifier,
\* ---- the join, the table of cached quotes

\* prices that an earlier call left in stock_prices
CachedPrices == {<<>>, "GBPUSD=X" :> FromInt(2)}

\* a join that does not wait for the tasks
AllJoinedNever(pending) == TRUE

\* "for task in tasks { task.await }": every task has returned
AllJoined(pending) == pending = {}

\* get_stock_quotes_with_client after the join: the quotes received are
\* written to stock_prices (INSERT OR REPLACE), the identifiers without a quote
\* are looked up in stock_prices
QuotesWithCache(d, asked, quotes) ==
    LET missing == asked \ DOMAIN quotes
        cached == [t \in missing \cap DOMAIN d.stock_prices |-> d.stock_prices[t]]
    IN  [db |-> [d EXCEPT !.stock_prices = quotes @@ @], rates |-> quotes @@ cached]

\* get_accounts up to the spawn of the request tasks: the summary is read
\* and one task per identifier is started
BeginGetAccounts ==
    /\ Idle /\ nops < MaxOps /\ inflight = NoCalls
    /\ \E target_currency \in {None, Some("EUR")} :
        LET target == TargetOf(target_currency)
            asked == TickersToFetch(GetAccountsDb(db), RawData(db, target), target,
                                    GetCustomRatesMap(db))
        IN  inflight' = [inflight EXCEPT ![1] =
                Some([op |-> "getAccounts", target_currency |-> target_currency,
                      asked |-> asked, pending |-> asked, quotes |-> <<>>,
                      returned |-> <<>>])]
    /\ UNCHANGED <<db, last, nops>>

\* one request task returns: a quote with a price, or nothing (request error,
\* status that is not a success, body that does not parse, empty result)
QuoteTask ==
    /\ IsSome(inflight[1]) /\ Unwrap(inflight[1]).op = "getAccounts"
    /\ LET call == Unwrap(inflight[1])
       IN  \E t \in call.pending, outcome \in {"quote", "error", "nothing"} :
           \E price \in IF outcome = "quote" THEN LiveValues ELSE {Zero} :
               inflight' = [inflight EXCEPT ![1] =
                   Some([call EXCEPT
                       !.pending = @ \ {t},
                       !.quotes = IF outcome = "quote" THEN (t :> price) @@ @ ELSE @,
                       !.returned = Append(@, <<t, outcome>>)])]
    /\ UNCHANGED <<db, last, nops>>

\* get_accounts from the join to its return: the quotes are cached, the
\* balances computed; a failure of the store while caching fails the call
FinishGetAccounts ==
    /\ IsSome(inflight[1]) /\ Unwrap(inflight[1]).op = "getAccounts"
    /\ LET call == Unwrap(inflight[1])
           r == QuotesWithCache(db, call.asked, call.quotes)
       IN  /\ AllJoined(call.pending)
           /\ \E fault \in 0..1 :
               /\ db' = IF fault = 0 THEN r.db ELSE db
               /\ last' = [op |-> "getAccounts", ok |-> fault = 0, id |-> 0,
                           fault |-> fault,
                           args |-> Some([target |-> TargetOf(call.target_currency),
                                          rates |-> r.rates,
                                          returned |-> call.returned,
                                          pending |-> call.pending]),
                           before |-> None, old |-> None,
                           ret |-> IF fault = 0
                                   THEN Some(GetAccountsDone(db, call.target_currency,
                                                             r.rates))
                                   ELSE None]
               /\ nops' = IF fault = 0 THEN nops + 1 ELSE nops
    /\ inflight' = NoCalls

InitQuotes ==
    /\ db \in {[stock_prices |-> prices] @@ d :
                  d \in {TwoAccounts, OneAccountStore(Some("GBP"), 0, Some("EUR"))},
                  prices \in CachedPrices}
    /\ last = [op |-> "init", ok |-> TRUE, id |-> 0, fault |-> 0,
               args |-> None, before |-> None, old |-> None, ret |-> None]
    /\ nops = 0
    /\ inflight = NoCalls

NextQuotes ==
    \/ BeginGetAccounts
    \/ QuoteTask
    \/ FinishGetAccounts

SpecQuotes == InitQuotes /\ [][NextQuotes]_vars

\* ---- init_db statement by statement, for initialisations that run again
\* ---- or at the same time; here db holds the schema (the columns of every
\* ---- table, in order) and the rows, a row mapping column names to values

AccountsColumns == <<"id", "name", "balance", "kind">>

TransactionsColumns ==
    <<"id", "account_id", "date", "payee", "notes", "category", "amount",
      "ticker", "shares", "price_per_share", "fee">>

\* the statements of init_db in the order it runs them
InitDbStatements ==
    << [stmt |-> "create", table |-> "accounts", columns |-> AccountsColumns],
       [stmt |-> "create", table |-> "transactions", columns |-> TransactionsColumns],
       [stmt |-> "table_info", table |-> "transactions", column |-> "linked_tx_id"],
       [stmt |-> "alter", table |-> "transactions", column |-> "linked_tx_id"],
       [stmt |-> "table_info", table |-> "transactions", column |-> "currency"],
       [stmt |-> "alter", table |-> "transactions", column |-> "currency"],
       [stmt |-> "table_info", table |-> "accounts", column |-> "currency"],
       [stmt |-> "alter", table |-> "accounts", column |-> "currency"],
       [stmt |-> "create", table |-> "stock_prices",
        columns |-> <<"ticker", "price", "last_updated">>],
       [stmt |-> "create", table |-> "daily_stock_prices",
        columns |-> <<"ticker", "date", "price">>],
       [stmt |-> "create", table |-> "rules",
        columns |-> <<"id", "priority", "match_field", "match_pattern",
                      "action_field", "action_value">>],
       [stmt |-> "create", table |-> "custom_exchange_rates",
        columns |-> <<"currency", "rate">>] >>

\* CREATE TABLE IF NOT EXISTS
CreateTableIfNotExists(d, table, columns) ==
    IF table \in DOMAIN d.schema THEN d
    ELSE [schema |-> (table :> columns) @@ d.schema,
          rows |-> (table :> <<>>) @@ d.rows]

\* PRAGMA table_info(table) scanned for a column name
HasColumn(d, table, column) ==
    \E i \in DOMAIN d.schema[table] : d.schema[table][i] = column

\* ALTER TABLE table ADD COLUMN column: a nullable column, NULL in every row;
\* an error when the table has a column of that name
AddColumn(d, table, column) ==
    IF HasColumn(d, table, column)
    THEN [ok |-> FALSE, error |-> "duplicate column name", db |-> d]
    ELSE [ok |-> TRUE, error |-> "",
          db |-> [schema |-> [d.schema EXCEPT ![table] = Append(@, column)],
                  rows |-> [d.rows EXCEPT ![table] =
                               [i \in DOMAIN @ |-> (column :> None) @@ @[i]]]]]

\* an init_db that takes no error of ALTER TABLE as success
IgnoredErrorNone(message) == FALSE

\* the errors of ALTER TABLE that init_db takes as success
IgnoredError(message) == message \in {"duplicate column name", "already exists"}

\* the init_db call of caller c: the one under way, or one that starts
InitDbCall(c) ==
    IF IsSome(inflight[c]) THEN Unwrap(inflight[c])
    ELSE [op |-> "initDb", pc |-> 1, has |-> FALSE, duplicate |-> FALSE]

\* caller c may run a statement: its call is under way, or it may start one
InitDbRuns(c) == last.ok /\ (IsSome(inflight[c]) \/ nops < MaxOps)

\* init_db leaves the store as d and moves to its next statement, or returns
\* Ok(()) after its last
InitDbGoesOn(c, call, d) ==
    /\ db' = d
    /\ IF call.pc = Len(InitDbStatements)
       THEN /\ last' = [op |-> "initDb", ok |-> TRUE, id |-> c, fault |-> 0,
                        args |-> Some([duplicate |-> call.duplicate]),
                        before |-> None, old |-> None, ret |-> None]
            /\ nops' = nops + 1
            /\ inflight' = [inflight EXCEPT ![c] = None]
       ELSE /\ inflight' = [inflight EXCEPT ![c] = Some([call EXCEPT !.pc = @ + 1])]
            /\ UNCHANGED <<last, nops>>

\* "return Err(s)"
InitDbFails(c) ==
    /\ last' = [op |-> "initDb", ok |-> FALSE, id |-> c, fault |-> 0,
                args |-> None, before |-> None, old |-> None, ret |-> None]
    /\ inflight' = [inflight EXCEPT ![c] = None]
    /\ UNCHANGED <<db, nops>>

InitDbCreateTable ==
    \E c \in Callers :
        LET call == InitDbCall(c)
            st == InitDbStatements[call.pc]
        IN  /\ InitDbRuns(c) /\ st.stmt = "create"
            /\ InitDbGoesOn(c, call, CreateTableIfNotExists(db, st.table, st.columns))

InitDbTableInfo ==
    \E c \in Callers :
        LET call == InitDbCall(c)
            st == InitDbStatements[call.pc]
        IN  /\ InitDbRuns(c) /\ st.stmt = "table_info"
            /\ InitDbGoesOn(c, [call EXCEPT !.has = HasColumn(db, st.table, st.column)],
                            db)

InitDbAddColumn ==
    \E c \in Callers :
        LET call == InitDbCall(c)
            st == InitDbStatements[call.pc]
            r == AddColumn(db, st.table, st.column)
        IN  /\ InitDbRuns(c) /\ st.stmt = "alter"
            /\ IF call.has THEN InitDbGoesOn(c, call, db)
               ELSE IF r.ok THEN InitDbGoesOn(c, call, r.db)
               ELSE IF IgnoredError(r.error)
                    THEN InitDbGoesOn(c, [call EXCEPT !.duplicate = TRUE], db)
               ELSE InitDbFails(c)

\* the schema init_db leaves
FullSchema ==
    [t \in {InitDbStatements[i].table :
               i \in {j \in DOMAIN InitDbStatements : InitDbStatements[j].stmt = "create"}}
     |-> IF t = "accounts" THEN Append(AccountsColumns, "currency")
         ELSE IF t = "transactions"
              THEN TransactionsColumns \o <<"linked_tx_id", "currency">>
         ELSE (CHOOSE s \in {InitDbStatements[i] : i \in DOMAIN InitDbStatements} :
                   s.stmt = "create" /\ s.table = t).columns]

\* a store file of a version of the application that had neither
\* linked_tx_id nor currency, with one account and one transaction
LegacyStore ==
    [schema |-> ("accounts" :> AccountsColumns) @@ ("transactions" :> TransactionsColumns),
     rows |-> ("accounts" :> <<[id |-> 1, name |-> <<"A">>, balance |-> 2,
                                kind |-> Some("cash")]>>)
              @@ ("transactions" :>
                     <<[id |-> 1, account_id |-> 1, date |-> CreateDate,
                        payee |-> <<"B">>, notes |-> None, category |-> Some("Food"),
                        amount |-> 2, ticker |-> None, shares |-> None,
                        price_per_share |-> None, fee |-> None]>>)]

\* no store file, a legacy store, a legacy store that has linked_tx_id, and
\* the store an init_db of this version left
InitSchema ==
    /\ db \in {[schema |-> <<>>, rows |-> <<>>],
               LegacyStore,
               AddColumn(LegacyStore, "transactions", "linked_tx_id").db,
               [schema |-> FullSchema,
                rows |-> [t \in DOMAIN FullSchema |-> <<>>]]}
    /\ last = [op |-> "init", ok |-> TRUE, id |-> 0, fault |-> 0,
               args |-> None, before |-> None, old |-> None, ret |-> None]
    /\ nops = 0
    /\ inflight = NoCalls

NextSchema ==
    \/ InitDbCreateTable
    \/ InitDbTableInfo
    \/ InitDbAddColumn

SpecSchema == InitSchema /\ [][NextSchema]_vars

\* ---- updateTransaction and deleteTransaction of two callers on the same
\* ---- row, each in its own store transaction (conn.transaction(): a deferred
\* ---- transaction on the caller's own connection). inflight[c].lock is the
\* ---- lock caller c's connection holds on the store file: "shared" from its
\* ---- first SELECT, "reserved" from its first write; "returned" when the call
\* ---- is over

\* the store both callers find: accounts A and B, one plain row on A
RaceStore == CreateTransactionDb(TwoAccounts, RowArgs(<<"b">>, None), None, 0).db

\* the calls on row 1: an update of the amount, of the date, a move to
\* account B, a delete
RaceCalls ==
    {[op |-> "updateTransaction", args |-> [Stored(RaceStore, 1) EXCEPT !.amount = -1]],
     [op |-> "updateTransaction", args |-> [Stored(RaceStore, 1) EXCEPT !.date = UpdateDate]],
     [op |-> "updateTransaction", args |-> [Stored(RaceStore, 1) EXCEPT !.account_id = 2]],
     [op |-> "deleteTransaction", args |-> [id |-> 1]]}

\* the call run from its SELECT to its commit on the store d
RunCall(d, call) ==
    IF call.op = "deleteTransaction"
    THEN DeleteTransactionDb(d, call.args.id, None, 0)
    ELSE UpdateTransactionDb(d, call.args, None, 0)

\* the call of caller c returns
Returns(c, call, ok, d) ==
    /\ db' = d
    /\ last' = [op |-> call.op, ok |-> ok, id |-> call.args.id, fault |-> 0,
                args |-> Some(call.args), before |-> None, old |-> None,
                ret |-> None]
    /\ nops' = IF ok THEN nops + 1 ELSE nops
    /\ inflight' = [inflight EXCEPT ![c] =
                       Some([op |-> call.op, args |-> call.args, lock |-> "returned",
                             ok |-> ok, snapshot |-> None])]

\* conn.transaction() and the SELECT of the row: the connection takes the
\* shared lock and reads the committed store; no row is an error
BeginTransaction ==
    /\ nops < MaxOps
    /\ \E c \in Callers, call \in RaceCalls :
        /\ inflight[c] = None
        /\ IF call.args.id \in TxIds(db)
           THEN /\ inflight' = [inflight EXCEPT ![c] =
                        Some([op |-> call.op, args |-> call.args, lock |-> "shared",
                              ok |-> TRUE, snapshot |-> Some(db)])]
                /\ UNCHANGED <<db, last, nops>>
           ELSE Returns(c, call, FALSE, db)

\* the first UPDATE or DELETE of the call: the connection needs the reserved
\* lock; when another connection holds it the statement fails at once with
\* "database is locked" (a connection that holds the shared lock does not
\* wait), the call returns the error and its transaction is rolled back
WriteTransaction ==
    \E c \in Callers :
        /\ IsSome(inflight[c]) /\ Unwrap(inflight[c]).lock = "shared"
        /\ IF \E o \in Callers \ {c} :
                  IsSome(inflight[o]) /\ Unwrap(inflight[o]).lock = "reserved"
           THEN Returns(c, Unwrap(inflight[c]), FALSE, db)
           ELSE /\ inflight' = [inflight EXCEPT ![c] =
                        Some([Unwrap(inflight[c]) EXCEPT !.lock = "reserved"])]
                /\ UNCHANGED <<db, last, nops>>

\* the remaining statements and tx.commit(): the commit waits until no other
\* connection holds the shared lock, then the store takes what the call wrote
\* on top of what it read
CommitTransaction ==
    \E c \in Callers :
        /\ IsSome(inflight[c]) /\ Unwrap(inflight[c]).lock = "reserved"
        /\ \A o \in Callers \ {c} :
               IsSome(inflight[o]) => Unwrap(inflight[o]).lock = "returned"
        /\ LET call == Unwrap(inflight[c])
               r == RunCall(Unwrap(call.snapshot), call)
           IN  Returns(c, call, r.ok, r.db)

InitRace ==
    /\ db = RaceStore
    /\ last = [op |-> "init", ok |-> TRUE, id |-> 0, fault |-> 0,
               args |-> None, before |-> None, old |-> None, ret |-> None]
    /\ nops = 0
    /\ inflight = NoCalls

NextRace ==
    \/ BeginTransaction
    \/ WriteTransaction
    \/ CommitTransaction

SpecRace == InitRace /\ [][NextRace]_vars

\* ------------------------------------------------------------ the properties

RECURSIVE SumAmounts(_, _)
SumAmounts(d, S) ==
    IF S = {} THEN 0
    ELSE LET x == CHOOSE y \in S : TRUE
         IN  d.transactions[x].amount + SumAmounts(d, S \ {x})

OwnedBy(d, a) == {t \in TxIds(d) : d.transactions[t].account_id = a}

\* C1: after any sequence of ledger operations every account's stored balance
\* is the sum of the amounts of the transactions that account owns
BalanceIsSumOfOwned ==
    \A a \in AccountIds(db) : db.accounts[a].balance = SumAmounts(db, OwnedBy(db, a))

\* an updateTransaction returned Ok and left an account with a non-zero balance
\* that owns a linked row and at least one more row
BalanceIsSumOfOwnedWitness ==
    /\ last.op = "updateTransaction" /\ last.ok
    /\ \E a \in AccountIds(db) :
        /\ db.accounts[a].balance # 0
        /\ Cardinality(OwnedBy(db, a)) >= 2
        /\ \E t \in OwnedBy(db, a) : IsSome(db.transactions[t].linked_tx_id)
        /\ Unwrap(last.args).account_id = a

\* C2: under createTransaction, updateTransaction and deleteTransaction every
\* transaction whose linked reference is set points at a row that points back
\* at it
LinkSymmetry ==
    \A t \in TxIds(db) :
        IsSome(db.transactions[t].linked_tx_id) =>
            /\ Unwrap(db.transactions[t].linked_tx_id) \in TxIds(db)
            /\ db.transactions[Unwrap(db.transactions[t].linked_tx_id)].linked_tx_id
                   = Some(t)

\* C3: no transaction's linked reference names a row that is gone, after
\* deleteAccount included
NoDanglingLink ==
    \A t \in TxIds(db) :
        IsSome(db.transactions[t].linked_tx_id) =>
            Unwrap(db.transactions[t].linked_tx_id) \in TxIds(db)

\* the rows of d are rows of e with the same fields
RowsKept(d, e, ids) ==
    \A t \in ids : t \in TxIds(e) /\ e.transactions[t] = d.transactions[t]

\* the accounts of d outside `ids` are accounts of e with the same fields
AccountsKept(d, e, ids) ==
    \A a \in AccountIds(d) \ ids : a \in AccountIds(e) /\ e.accounts[a] = d.accounts[a]

\* the accounts other than `account_id` whose name is exactly `payee`
NamedExactly(d, payee, account_id) ==
    {b \in AccountIds(d) \ {account_id} : d.accounts[b].name = payee}

\* C4: createTransaction on account A with amount x and a payee that is exactly
\* the name of another account B inserts exactly two rows: the caller's row on
\* A with amount x, and a counterpart on B with amount -x, the same date and
\* notes and payee the name of A; both have category "Transfer", each names the
\* other as its linked row, and the balance of A grows by x and that of B
\* falls by x
TransferCreatesPair ==
    [][ (/\ last'.op = "createTransaction" /\ last'.ok
         /\ NamedExactly(db, Unwrap(last'.args).payee,
                         Unwrap(last'.args).account_id) # {})
        => LET args == Unwrap(last'.args)
               A == args.account_id
               id == last'.id
           IN  \E B \in NamedExactly(db, args.payee, A) :
               \E c \in TxIds(db') \ (TxIds(db) \cup {id}) :
                   /\ id \notin TxIds(db)
                   /\ TxIds(db') = TxIds(db) \cup {id, c}
                   /\ RowsKept(db, db', TxIds(db))
                   /\ db'.transactions[id].account_id = A
                   /\ db'.transactions[id].amount = args.amount
                   /\ db'.transactions[id].date = args.date
                   /\ db'.transactions[id].notes = args.notes
                   /\ db'.transactions[id].payee = args.payee
                   /\ db'.transactions[id].category = Some("Transfer")
                   /\ db'.transactions[id].linked_tx_id = Some(c)
                   /\ db'.transactions[c].account_id = B
                   /\ db'.transactions[c].amount = -args.amount
                   /\ db'.transactions[c].date = args.date
                   /\ db'.transactions[c].notes = args.notes
                   /\ db'.transactions[c].payee = db.accounts[A].name
                   /\ db'.transactions[c].category = Some("Transfer")
                   /\ db'.transactions[c].linked_tx_id = Some(id)
                   /\ AccountIds(db') = AccountIds(db)
                   /\ db'.accounts[A].balance = db.accounts[A].balance + args.amount
                   /\ db'.accounts[B].balance = db.accounts[B].balance - args.amount
                   /\ AccountsKept(db, db', {A, B}) ]_vars

\* a createTransaction with notes, on an account that already owned rows,
\* returned Ok and left a linked pair on two accounts with non-zero balances
TransferCreatesPairWitness ==
    /\ last.op = "createTransaction" /\ last.ok
    /\ IsSome(Unwrap(last.args).notes)
    /\ last.id > 1
    /\ IsSome(db.transactions[last.id].linked_tx_id)
    /\ LET c == Unwrap(db.transactions[last.id].linked_tx_id)
       IN  /\ c \in TxIds(db)
           /\ db.transactions[c].account_id # db.transactions[last.id].account_id
           /\ db.transactions[c].amount = - Unwrap(last.args).amount
           /\ db.accounts[db.transactions[c].account_id].balance # 0
           /\ db.accounts[db.transactions[last.id].account_id].balance # 0

\* t and u are two rows of d that name each other as linked row
MutuallyLinked(d, t, u) ==
    /\ t \in TxIds(d) /\ u \in TxIds(d) /\ t # u
    /\ d.transactions[t].linked_tx_id = Some(u)
    /\ d.transactions[u].linked_tx_id = Some(t)

\* C5: deleteTransaction on either row of a mutually linked pair removes both
\* rows and takes each row's stored amount from that row's own account, so
\* that a pair deleted right after the createTransaction that made it leaves
\* the balances that call found
DeleteRemovesPair ==
    [][ (/\ last'.op = "deleteTransaction" /\ last'.ok
         /\ \E u \in TxIds(db) : MutuallyLinked(db, last'.id, u))
        => LET id == last'.id
               u == Unwrap(db.transactions[id].linked_tx_id)
           IN  /\ TxIds(db') = TxIds(db) \ {id, u}
               /\ RowsKept(db, db', TxIds(db) \ {id, u})
               /\ AccountIds(db') = AccountIds(db)
               /\ \A a \in AccountIds(db) :
                      db'.accounts[a] =
                          [db.accounts[a] EXCEPT !.balance =
                              @ - SumAmounts(db, {id, u} \cap OwnedBy(db, a))]
               /\ (/\ last.op = "createTransaction" /\ last.ok
                   /\ MutuallyLinked(db, last.id, IF id = last.id THEN u ELSE id)
                   /\ id \in {last.id, Unwrap(db.transactions[last.id].linked_tx_id)})
                  => Balances(db') = Unwrap(last.before) ]_vars

\* a deleteTransaction on the counterpart row of the pair that the call before
\* it created returned Ok, on accounts whose balances were not zero before
DeleteRemovesPairWitness ==
    /\ last.op = "deleteTransaction" /\ last.ok
    /\ IsSome(Unwrap(last.old).linked_tx_id)
    /\ Unwrap(Unwrap(last.old).linked_tx_id) = last.id - 1
    /\ {last.id - 1, last.id} \cap TxIds(db) = {}
    /\ last.id > 2
    /\ Cardinality({a \in AccountIds(db) :
                       db.accounts[a].balance # Unwrap(last.before)[a]}) = 2
    /\ \E a \in AccountIds(db) : db.accounts[a].balance # 0

\* C6: a createTransaction, updateTransaction, deleteTransaction,
\* createAccount or deleteAccount that returns an error, whatever statement of
\* it the error came from, leaves accounts and transactions as they were
ErrorLeavesStore ==
    [][ (/\ last'.op \in {"createTransaction", "updateTransaction",
                          "deleteTransaction", "createAccount", "deleteAccount"}
         /\ ~last'.ok)
        => db' = db ]_vars

\* a createTransaction to another account met a store error after the
\* caller's row and the counterpart row had been inserted
ErrorLeavesStoreWitness ==
    /\ last.op = "createTransaction" /\ ~last.ok
    /\ last.fault \in 5..6
    /\ Cardinality(AccountIds(db)) >= 2
    /\ TxIds(db) # {}

\* the rows updateTransaction may take for the counterpart of row `id`: the
\* linked row when the reference is set and the row exists, else, when the
\* call carries notes, a "Transfer" row with the same notes
Located(d, id, notes) ==
    IF IsSome(d.transactions[id].linked_tx_id)
    THEN {Unwrap(d.transactions[id].linked_tx_id)} \cap TxIds(d)
    ELSE IF IsSome(notes) THEN NotesMatches(d, Unwrap(notes), id) ELSE {}

\* what setting row c to the negation of `amount` adds to account a
SyncDelta(d, c, amount, a) ==
    IF d.transactions[c].account_id = a THEN (-amount) - d.transactions[c].amount
    ELSE 0

\* what the reconciliation of the updated row adds to account a
OwnDelta(d, id, args, a) ==
    LET old == d.transactions[id]
    IN  IF old.account_id = args.account_id
        THEN IF a = args.account_id THEN args.amount - old.amount ELSE 0
        ELSE (IF a = old.account_id THEN -old.amount ELSE 0)
             + (IF a = args.account_id THEN args.amount ELSE 0)

UpdateOk == last'.op = "updateTransaction" /\ last'.ok

IdenticalUpdate == UpdateOk /\ Unwrap(last'.args) = Stored(db, last'.id)

PlainCreateIsLocal ==
    [][ (/\ last'.op = "createTransaction" /\ last'.ok
         /\ NamedExactly(db, Unwrap(last'.args).payee,
                         Unwrap(last'.args).account_id) = {})
        => LET args == Unwrap(last'.args)
               A == args.account_id
               id == last'.id
           IN  /\ id \notin TxIds(db)
               /\ TxIds(db') = TxIds(db) \cup {id}
               /\ RowsKept(db, db', TxIds(db))
               /\ db'.transactions[id] =
                      Row(A, args.date, args.payee, args.notes, args.category,
                          args.amount, args.ticker, args.shares,
                          args.price_per_share, args.fee, args.currency, None)
               /\ AccountIds(db') = AccountIds(db)
               /\ db'.accounts[A] =
                      [db.accounts[A] EXCEPT !.balance = @ + args.amount]
               /\ AccountsKept(db, db', {A}) ]_vars

\* a createTransaction returned Ok with a payee that is the owning account's
\* own name, or another account's name in another letter case, and left one
\* more row, unlinked, with the category of the call
PlainCreateIsLocalWitness ==
    /\ last.op = "createTransaction" /\ last.ok
    /\ LET args == Unwrap(last.args)
       IN  /\ \/ args.payee = db.accounts[args.account_id].name
              \/ \E b \in AccountIds(db) \ {args.account_id} :
                     /\ args.payee # db.accounts[b].name
                     /\ Lower(args.payee) = Lower(db.accounts[b].name)
           /\ db.transactions[last.id].linked_tx_id = None
           /\ db.transactions[last.id].category = Some("Food")
           /\ Cardinality(AccountIds(db)) >= 2
           /\ last.id + 1 \notin TxIds(db)
           /\ last.id > 1

\* the rows other than `id` that carry exactly the notes n and the category
\* "Transfer"
SameNotesTransfers(d, n, id) ==
    {j \in TxIds(d) \ {id} : /\ d.transactions[j].notes = Some(n)
                             /\ d.transactions[j].category = Some("Transfer")}

\* the row of an updateTransaction call as the call leaves it, linked to l
UpdatedRow(d, args, l) ==
    [d.transactions[args.id] EXCEPT
        !.account_id = args.account_id, !.date = args.date, !.payee = args.payee,
        !.notes = args.notes, !.category = args.category, !.amount = args.amount,
        !.currency = args.currency, !.linked_tx_id = l]

\* C11: updateTransaction on a row with no linked reference, called with notes,
\* looks for another row with exactly these notes and category "Transfer"; when
\* there is one, both rows name each other as linked row afterwards and the
\* found row is synchronised (amount negated, its account's balance adjusted by
\* the difference); when there is none, only the updated row and its own
\* account(s) change
UpdateFindsCounterpartByNotes ==
    [][ (/\ UpdateOk
         /\ db.transactions[last'.id].linked_tx_id = None
         /\ IsSome(Unwrap(last'.args).notes))
        => LET id == last'.id
               args == Unwrap(last'.args)
               M == SameNotesTransfers(db, Unwrap(args.notes), id)
           IN  /\ TxIds(db') = TxIds(db)
               /\ AccountIds(db') = AccountIds(db)
               /\ IF M = {}
                  THEN /\ db'.transactions[id] = UpdatedRow(db, args, None)
                       /\ RowsKept(db, db', TxIds(db) \ {id})
                       /\ \A a \in AccountIds(db) :
                              db'.accounts[a] =
                                  [db.accounts[a] EXCEPT !.balance =
                                      @ + OwnDelta(db, id, args, a)]
                  ELSE \E c \in M :
                       /\ db'.transactions[id] = UpdatedRow(db, args, Some(c))
                       /\ db'.transactions[c].linked_tx_id = Some(id)
                       /\ db'.transactions[c].amount = -args.amount
                       /\ db'.transactions[c].account_id
                              = db.transactions[c].account_id
                       /\ RowsKept(db, db', TxIds(db) \ {id, c})
                       /\ \A a \in AccountIds(db) :
                              db'.accounts[a] =
                                  [db.accounts[a] EXCEPT !.balance =
                                      @ + OwnDelta(db, id, args, a)
                                        + SyncDelta(db, c, args.amount, a)] ]_vars

\* an updateTransaction with notes on a row that had no linked reference
\* returned Ok and left the row and a "Transfer" row of another account, with
\* the same notes and the negated amount, naming each other
UpdateFindsCounterpartByNotesWitness ==
    /\ last.op = "updateTransaction" /\ last.ok
    /\ Unwrap(last.old).linked_tx_id = None
    /\ IsSome(Unwrap(last.args).notes)
    /\ IsSome(db.transactions[last.id].linked_tx_id)
    /\ LET c == Unwrap(db.transactions[last.id].linked_tx_id)
       IN  /\ c \in TxIds(db)
           /\ db.transactions[c].linked_tx_id = Some(last.id)
           /\ db.transactions[c].notes = Unwrap(last.args).notes
           /\ db.transactions[c].category = Some("Transfer")
           /\ db.transactions[c].amount = - Unwrap(last.args).amount
           /\ db.transactions[c].account_id # db.transactions[last.id].account_id

\* C12: deleteTransaction on a row with no linked reference and with notes also
\* removes one other row that carries exactly the same notes and category
\* "Transfer", when there is one, and takes that row's stored amount from that
\* row's own account
DeleteFindsCounterpartByNotes ==
    [][ (/\ last'.op = "deleteTransaction" /\ last'.ok
         /\ db.transactions[last'.id].linked_tx_id = None
         /\ IsSome(db.transactions[last'.id].notes))
        => LET id == last'.id
               M == SameNotesTransfers(db, Unwrap(db.transactions[id].notes), id)
           IN  /\ AccountIds(db') = AccountIds(db)
               /\ \E R \in IF M = {} THEN {{id}} ELSE {{id, c} : c \in M} :
                     /\ TxIds(db') = TxIds(db) \ R
                     /\ RowsKept(db, db', TxIds(db) \ R)
                     /\ \A a \in AccountIds(db) :
                            db'.accounts[a] =
                                [db.accounts[a] EXCEPT !.balance =
                                    @ - SumAmounts(db, R \cap OwnedBy(db, a))] ]_vars

\* a deleteTransaction on a row with notes and no linked reference returned
\* Ok and took a second row with it, from another account's balance
DeleteFindsCounterpartByNotesWitness ==
    /\ last.op = "deleteTransaction" /\ last.ok
    /\ Unwrap(last.old).linked_tx_id = None
    /\ IsSome(Unwrap(last.old).notes)
    /\ \E a \in AccountIds(db) :
        /\ a # Unwrap(last.old).account_id
        /\ db.accounts[a].balance # Unwrap(last.before)[a]
    /\ db.accounts[Unwrap(last.old).account_id].balance
           = Unwrap(last.before)[Unwrap(last.old).account_id]
               - Unwrap(last.old).amount

\* C13: updateTransaction, updateInvestmentTransaction and deleteTransaction
\* called with an id that names no stored transaction return an error and
\* leave every account and transaction as it was
UnknownTransactionIsError ==
    [][ (/\ last'.op \in {"updateTransaction", "updateInvestmentTransaction",
                          "deleteTransaction"}
         /\ last'.id \notin TxIds(db))
        => ~last'.ok /\ db' = db ]_vars

\* a deleteTransaction with an id that names no row of a store that holds
\* transactions returned an error, with no store error injected
UnknownTransactionIsErrorWitness ==
    /\ last.op = "deleteTransaction" /\ ~last.ok /\ last.fault = 0
    /\ last.id \notin TxIds(db)
    /\ TxIds(db) # {}

\* every transaction is owned by an existing account
OwnersExist == \A t \in TxIds(db) : db.transactions[t].account_id \in AccountIds(db)

\* C14: createTransaction on an account id that names no account, and
\* updateTransaction moving a row to an account id that names no account,
\* return an error and leave the store as it was; no transaction is ever owned
\* by an account id that names no account
UnknownAccountIsError ==
    /\ []OwnersExist
    /\ [][ (last'.op \in {"createTransaction", "updateTransaction"})
           => /\ last'.ok => Unwrap(last'.args).account_id \in AccountIds(db)
              /\ ~last'.ok => db' = db ]_vars

\* an updateTransaction on a stored row returned an error with no store error
\* injected: the account it named does not exist
UnknownAccountIsErrorWitness ==
    /\ last.op = "updateTransaction" /\ ~last.ok /\ last.fault = 0
    /\ last.id \in TxIds(db)
    /\ db.accounts[db.transactions[last.id].account_id].balance # 0

\* a letter with its case ignored: the small letter of a capital, ASCII or not
FoldChar(c) == IF c = UpperEAcute THEN LowerEAcute ELSE LowerChar(c)

\* a text with letter case ignored
Fold(s) == [i \in 1..Len(s) |-> FoldChar(s[i])]

\* the name a createAccount, renameAccount or updateAccount call was given
NameArg(op, args) == IF op = "renameAccount" THEN args.new_name ELSE args.name

AccountNameOp == last'.op \in {"createAccount", "renameAccount", "updateAccount"}

\* C15: createAccount, renameAccount and updateAccount reject a name that is
\* empty after trimming and a name that equals, ignoring letter case, the name
\* of another account; a rejected call changes no account and no transaction,
\* and an accepted call stores the trimmed name
NamesValidated ==
    [][ AccountNameOp
        => /\ last'.ok =>
                LET name == Trim(NameArg(last'.op, Unwrap(last'.args)))
                IN  /\ name # <<>>
                    /\ \A b \in AccountIds(db) \ {last'.id} :
                           Fold(db.accounts[b].name) # Fold(name)
                    /\ last'.id \in AccountIds(db')
                    /\ db'.accounts[last'.id].name = name
           /\ (~last'.ok /\ last'.fault = 0) => db' = db ]_vars

\* C16: renameAccount and updateAccount called with an id that names no
\* account return an error and leave every account as it was
UnknownAccountRenameIsError ==
    [][ (/\ last'.op \in {"renameAccount", "updateAccount"}
         /\ last'.id \notin AccountIds(db))
        => ~last'.ok /\ db'.accounts = db.accounts ]_vars

\* a renameAccount with a name that no account carries and an id that names
\* no account of a store that holds accounts returned an error, with no
\* store error injected
UnknownAccountRenameIsErrorWitness ==
    /\ last.op = "renameAccount" /\ ~last.ok /\ last.fault = 0
    /\ last.id \notin AccountIds(db)
    /\ AccountIds(db) # {}
    /\ \A b \in AccountIds(db) : Lower(db.accounts[b].name) # <<"b">>

\* C17: deleteAccount called with an id that names no account fails with a
\* not-found error and changes nothing
UnknownAccountDeleteIsError ==
    [][ (/\ last'.op = "deleteAccount"
         /\ last'.id \notin AccountIds(db))
        => ~last'.ok /\ db' = db ]_vars

\* C18: createAccount with a non-zero opening balance b stores the account
\* with balance b and exactly one transaction owned by it (payee "Opening
\* Balance", category "Income", amount b, the account's currency); with
\* opening balance 0 it stores the account with balance 0 and no transaction;
\* the returned account carries exchangeRate 1.0
OpeningBalanceRow ==
    [][ (last'.op = "createAccount" /\ last'.ok)
        => LET args == Unwrap(last'.args)
               id == last'.id
           IN  /\ id \notin AccountIds(db)
               /\ AccountIds(db') = AccountIds(db) \cup {id}
               /\ AccountsKept(db, db', {})
               /\ db'.accounts[id] = [name |-> Trim(args.name),
                                      balance |-> args.balance,
                                      currency |-> args.currency]
               /\ RowsKept(db, db', TxIds(db))
               /\ OwnedBy(db', id) = TxIds(db') \ TxIds(db)
               /\ IF args.balance # 0
                  THEN \E t \in TxIds(db') :
                          /\ OwnedBy(db', id) = {t}
                          /\ db'.transactions[t].payee = <<"Opening Balance">>
                          /\ db'.transactions[t].category = Some("Income")
                          /\ db'.transactions[t].amount = args.balance
                          /\ db'.transactions[t].currency = args.currency
                          /\ db'.transactions[t].linked_tx_id = None
                  ELSE OwnedBy(db', id) = {}
               /\ IsSome(last'.ret)
               /\ Unwrap(last'.ret).exchange_rate = 1
               /\ Unwrap(last'.ret).id = id
               /\ Unwrap(last'.ret).balance = args.balance ]_vars

\* a createAccount with a non-zero opening balance returned Ok in a store that
\* held transactions of other accounts, and the new account owns one row
OpeningBalanceRowWitness ==
    /\ last.op = "createAccount" /\ last.ok
    /\ Unwrap(last.args).balance # 0
    /\ Cardinality(OwnedBy(db, last.id)) = 1
    /\ db.accounts[last.id].balance = Unwrap(last.args).balance
    /\ Cardinality(TxIds(db)) >= 2
    /\ Unwrap(last.ret).exchange_rate = 1

\* C19: after deleteAccount(id) returned Ok the account is not among the
\* accounts and no transaction is owned by id, however many transactions,
\* transfers included, the account had
DeletedAccountIsGone ==
    [][ (last'.op = "deleteAccount" /\ last'.ok)
        => /\ last'.id \notin AccountIds(db')
           /\ OwnedBy(db', last'.id) = {} ]_vars

\* a deleteAccount returned Ok on an account that owned a row of a transfer:
\* the other row is still there, on an account that is still there
DeletedAccountIsGoneWitness ==
    /\ last.op = "deleteAccount" /\ last.ok
    /\ last.id \notin AccountIds(db)
    /\ \E t \in TxIds(db) :
        /\ IsSome(db.transactions[t].linked_tx_id)
        /\ Unwrap(db.transactions[t].linked_tx_id) \notin TxIds(db)
        /\ db.transactions[t].payee # db.accounts[db.transactions[t].account_id].name

\* C20: deleteAccount(id) changes nothing outside the deleted account: every
\* other account keeps its name and balance, and every transaction owned by
\* another account keeps all its fields, its linked reference included, even
\* when that reference names a row of the deleted account
DeleteAccountIsLocal ==
    [][ (last'.op = "deleteAccount" /\ last'.ok)
        => /\ AccountIds(db') = AccountIds(db) \ {last'.id}
           /\ AccountsKept(db, db', {last'.id})
           /\ TxIds(db') = TxIds(db) \ OwnedBy(db, last'.id)
           /\ RowsKept(db, db', TxIds(db) \ OwnedBy(db, last'.id)) ]_vars

\* a deleteAccount returned Ok and left, on another account with a non-zero
\* balance, a transfer row whose linked reference names a row that is gone
DeleteAccountIsLocalWitness ==
    /\ last.op = "deleteAccount" /\ last.ok
    /\ \E t \in TxIds(db) :
        /\ db.transactions[t].category = Some("Transfer")
        /\ IsSome(db.transactions[t].linked_tx_id)
        /\ Unwrap(db.transactions[t].linked_tx_id) \notin TxIds(db)
        /\ db.accounts[db.transactions[t].account_id].balance
               = db.transactions[t].amount
        /\ db.transactions[t].amount # 0

\* the arguments and the result of the computeRate call that led to the state
RateCall == last.op = "computeRate" /\ last.ok

RateArgs == Unwrap(last.args)

\* the direct pair identifier of the call is in the live rates with a rate
\* above 0
HasDirect ==
    LET t == RateArgs.src \o RateArgs.dst \o "=X"
    IN  t \in DOMAIN RateArgs.rates /\ RateArgs.rates[t][1] > 0

\* C21: for source different from destination, when liveRates holds a rate
\* greater than 0 under source+destination+"=X", resolveRate returns exactly
\* that rate, whatever overrideRates and the USD-pivot live rates contain
DirectPairFirst ==
    (RateCall /\ RateArgs.src # RateArgs.dst /\ HasDirect)
    => Unwrap(last.ret) = RateArgs.rates[RateArgs.src \o RateArgs.dst \o "=X"]

\* EUR to GBP was resolved with a direct rate of 3 while both currencies have
\* an override (implying another rate) and a live USD pivot rate
DirectPairFirstWitness ==
    /\ RateCall /\ RateArgs.src = "EUR" /\ RateArgs.dst = "GBP"
    /\ HasDirect
    /\ {"EUR", "GBP"} \subseteq DOMAIN RateArgs.custom_rates
    /\ RateArgs.custom_rates["EUR"] = FromInt(2)
    /\ RateArgs.custom_rates["GBP"] = FromInt(-1)
    /\ {"EURUSD=X", "GBPUSD=X"} \subseteq DOMAIN RateArgs.rates
    /\ Unwrap(last.ret) = FromInt(3)

\* rateToUSD(c) of the specification: 1 for USD, else the override rate of c,
\* else the live rate of c+"USD=X", else 1
RateToUSD(c, liveRates, overrideRates) ==
    IF c = "USD" THEN <<1, 1>>
    ELSE IF c \in DOMAIN overrideRates THEN overrideRates[c]
    ELSE IF (c \o "USD=X") \in DOMAIN liveRates THEN liveRates[c \o "USD=X"]
    ELSE <<1, 1>>

\* the fraction r equals a / b
IsQuotient(r, a, b) == b[1] # 0 /\ r[1] * a[2] * b[1] = a[1] * b[2] * r[2]

\* C22: for source different from destination with no direct pair above 0,
\* resolveRate returns rateToUSD(source) / rateToUSD(destination), and 1.0
\* when rateToUSD(destination) is exactly 0
PivotRate ==
    (RateCall /\ RateArgs.src # RateArgs.dst /\ ~HasDirect)
    => LET r_src == RateToUSD(RateArgs.src, RateArgs.rates, RateArgs.custom_rates)
           r_dst == RateToUSD(RateArgs.dst, RateArgs.rates, RateArgs.custom_rates)
       IN  IF r_dst[1] = 0 THEN Unwrap(last.ret) = <<1, 1>>
           ELSE IsQuotient(Unwrap(last.ret), r_src, r_dst)

\* EUR to GBP was resolved without a direct pair from the override of EUR (2)
\* and the live rate of GBPUSD=X (3), and gave 2/3
PivotRateWitness ==
    /\ RateCall /\ RateArgs.src = "EUR" /\ RateArgs.dst = "GBP" /\ ~HasDirect
    /\ "EUR" \in DOMAIN RateArgs.custom_rates
    /\ RateArgs.custom_rates["EUR"] = FromInt(2)
    /\ "GBP" \notin DOMAIN RateArgs.custom_rates
    /\ "GBPUSD=X" \in DOMAIN RateArgs.rates
    /\ RateArgs.rates["GBPUSD=X"] = FromInt(3)
    /\ Unwrap(last.ret) = <<2, 3>>

\* the rate to USD that the override of c implies, when c has one; USD itself
\* is 1
ImpliedByOverride(c, liveRates, overrideRates) ==
    IF c # "USD" /\ c \in DOMAIN overrideRates THEN overrideRates[c]
    ELSE RateToUSD(c, liveRates, overrideRates)

\* C23, as stated: whenever overrideRates has an entry for the source or the
\* destination, the rate returned is the one implied by the override and
\* never one taken from the live rates
OverrideWins ==
    (/\ RateCall /\ RateArgs.src # RateArgs.dst
     /\ ({RateArgs.src, RateArgs.dst} \ {"USD"}) \cap DOMAIN RateArgs.custom_rates # {})
    => LET r_src == ImpliedByOverride(RateArgs.src, RateArgs.rates, RateArgs.custom_rates)
           r_dst == ImpliedByOverride(RateArgs.dst, RateArgs.rates, RateArgs.custom_rates)
       IN  IF r_dst[1] = 0 THEN Unwrap(last.ret) = <<1, 1>>
           ELSE IsQuotient(Unwrap(last.ret), r_src, r_dst)

\* C23, amended: when no direct pair above 0 is in the live rates, the rate to
\* USD used for a currency other than USD that has an override is the
\* override, whatever the live rate of its USD pair is
OverrideWinsInPivot ==
    (/\ RateCall /\ RateArgs.src # RateArgs.dst /\ ~HasDirect
     /\ ({RateArgs.src, RateArgs.dst} \ {"USD"}) \cap DOMAIN RateArgs.custom_rates # {})
    => LET r_src == ImpliedByOverride(RateArgs.src, RateArgs.rates, RateArgs.custom_rates)
           r_dst == ImpliedByOverride(RateArgs.dst, RateArgs.rates, RateArgs.custom_rates)
       IN  IF r_dst[1] = 0 THEN Unwrap(last.ret) = <<1, 1>>
           ELSE IsQuotient(Unwrap(last.ret), r_src, r_dst)

\* GBP to EUR was resolved while both have an override (2 and -1) and a live
\* USD pair (0 and 3): the result is -1/2, from the overrides alone
OverrideWinsInPivotWitness ==
    /\ RateCall /\ RateArgs.src = "GBP" /\ RateArgs.dst = "EUR"
    /\ {"EUR", "GBP"} \subseteq DOMAIN RateArgs.custom_rates
    /\ RateArgs.custom_rates["EUR"] = FromInt(2)
    /\ RateArgs.custom_rates["GBP"] = FromInt(-1)
    /\ {"EURUSD=X", "GBPUSD=X"} \subseteq DOMAIN RateArgs.rates
    /\ RateArgs.rates["EURUSD=X"] = FromInt(0)
    /\ RateArgs.rates["GBPUSD=X"] = FromInt(3)
    /\ Unwrap(last.ret) = <<-1, 2>>

\* C24: resolveRate never reports an error and treats a rate that is absent,
\* zero or negative in either mapping as 1.0: the returned rate is strictly
\* positive for every input
RateIsPositive ==
    (last.op = "computeRate") => last.ok /\ Unwrap(last.ret)[1] > 0

\* resolveRate of the specification (4.3), on exact fractions
ResolveRate43(source, destination, liveRates, overrideRates) ==
    LET direct == source \o destination \o "=X"
        r_src == RateToUSD(source, liveRates, overrideRates)
        r_dst == RateToUSD(destination, liveRates, overrideRates)
    IN  IF source = destination THEN <<1, 1>>
        ELSE IF direct \in DOMAIN liveRates /\ liveRates[direct][1] > 0
        THEN liveRates[direct]
        ELSE IF r_dst[1] = 0 THEN <<1, 1>>
        ELSE Frac(r_src[1] * r_dst[2], r_src[2] * r_dst[1])

\* the currency an account's amounts are converted to
OwnOrTarget(acc, target) == IF IsSome(acc.currency) THEN Unwrap(acc.currency) ELSE target

\* the sum over the tuples of account `acc` of summedAmount times the rate
\* from the tuple's currency to the account's currency
ConvertedSum(acc, raw_data, target, liveRates, overrideRates) ==
    LET of == {k \in DOMAIN raw_data : raw_data[k].acc_id = acc.id}
        val == [k \in of |->
                   FracMul(raw_data[k].amount,
                           ResolveRate43(raw_data[k].currency, OwnOrTarget(acc, target),
                                         liveRates, overrideRates))]
    IN  SumOver(val, of)

\* the exchangeRate of the specification for account `acc`
DisplayRate(acc, target, liveRates, overrideRates) ==
    IF IsSome(acc.currency)
    THEN ResolveRate43(Unwrap(acc.currency), target, liveRates, overrideRates)
    ELSE <<1, 1>>

BalancesCall == last.op = "calculateAccountBalances" /\ last.ok

BalancesArgs == Unwrap(last.args)

HasTuple(acc, raw_data) == \E k \in DOMAIN raw_data : raw_data[k].acc_id = acc.id

NullCurrencyIsAccountCurrency ==
    (last.op = "getAccounts" /\ last.ok)
    => LET a == Unwrap(last.args)
           out == Unwrap(last.ret)
           custom == db.custom_exchange_rates
       IN  \A i \in DOMAIN out :
               LET id == out[i].id
                   own == OwnOrTarget(db.accounts[id], a.target)
                   rows == OwnedBy(db, id)
                   val == [t \in rows |->
                              FracMul(FromInt(db.transactions[t].amount),
                                      ResolveRate43(
                                          IF IsSome(db.transactions[t].currency)
                                          THEN Unwrap(db.transactions[t].currency)
                                          ELSE own,
                                          own, a.rates, custom))]
               IN  /\ rows # {} => out[i].balance = SumOver(val, rows)
                   /\ (rows # {} /\ \A t \in rows : db.transactions[t].currency = None)
                          => out[i].balance = FromInt(db.accounts[id].balance)

\* the amount of a trade as the specification gives it
TradeAmount(args) ==
    IF args.is_buy THEN -(args.shares * args.price_per_share + args.fee)
    ELSE args.shares * args.price_per_share - args.fee

\* the shares stored for a trade
TradeShares(args) == IF args.is_buy THEN args.shares ELSE -args.shares

\* C27: createInvestmentTransaction inserts exactly one row with category
\* "Investment": a buy has amount -(shares*pricePerShare + fee) and stored
\* shares +shares, a sell has amount shares*pricePerShare - fee and stored
\* shares -shares; the amount is added to the owning account's balance only
\* and no linked counterpart is created
InvestmentCreatesOneRow ==
    [][ (last'.op = "createInvestmentTransaction" /\ last'.ok)
        => LET args == Unwrap(last'.args)
               id == last'.id
           IN  /\ id \notin TxIds(db)
               /\ TxIds(db') = TxIds(db) \cup {id}
               /\ RowsKept(db, db', TxIds(db))
               /\ db'.transactions[id].category = Some("Investment")
               /\ db'.transactions[id].account_id = args.account_id
               /\ db'.transactions[id].amount = TradeAmount(args)
               /\ db'.transactions[id].shares = Some(TradeShares(args))
               /\ db'.transactions[id].linked_tx_id = None
               /\ AccountIds(db') = AccountIds(db)
               /\ AccountsKept(db, db', {args.account_id})
               /\ db'.accounts[args.account_id] =
                      [db.accounts[args.account_id] EXCEPT
                          !.balance = @ + TradeAmount(args)] ]_vars

\* a sale of 1 share at 2 with fee 1 was entered on one of two accounts that
\* already held a transfer pair: the row has amount 1 and -1 share
InvestmentCreatesOneRowWitness ==
    /\ last.op = "createInvestmentTransaction" /\ last.ok
    /\ ~Unwrap(last.args).is_buy
    /\ db.transactions[last.id].amount = 1
    /\ db.transactions[last.id].shares = Some(-1)
    /\ Cardinality(AccountIds(db)) = 2
    /\ \E t \in TxIds(db) : IsSome(db.transactions[t].linked_tx_id)

\* C28: updateInvestmentTransaction recomputes amount and shares from the new
\* trade parameters and reconciles balances from the old stored amount: with
\* the account unchanged its balance changes by (new amount - old amount); on
\* a move the old account loses the old amount, the new account gains the new
\* amount and the row belongs to the new account; parameters that give the
\* stored amount on the same account leave all balances unchanged
InvestmentUpdateReconciles ==
    [][ (last'.op = "updateInvestmentTransaction" /\ last'.ok)
        => LET args == Unwrap(last'.args)
               id == last'.id
               old == Unwrap(last'.old)
               gain(a) == IF a = args.account_id THEN TradeAmount(args) ELSE 0
               loss(a) == IF a = old.account_id THEN old.amount ELSE 0
           IN  /\ id \in TxIds(db) /\ old = db.transactions[id]
               /\ TxIds(db') = TxIds(db)
               /\ RowsKept(db, db', TxIds(db) \ {id})
               /\ db'.transactions[id].amount = TradeAmount(args)
               /\ db'.transactions[id].shares = Some(TradeShares(args))
               /\ db'.transactions[id].account_id = args.account_id
               /\ AccountIds(db') = AccountIds(db)
               /\ \A a \in AccountIds(db) :
                      db'.accounts[a] =
                          [db.accounts[a] EXCEPT !.balance = @ + gain(a) - loss(a)]
               /\ (args.account_id = old.account_id /\ TradeAmount(args) = old.amount)
                      => Balances(db') = Balances(db) ]_vars

\* a trade was moved from one account to another with parameters that change
\* its amount: the old account and the new account both have another balance
InvestmentUpdateReconcilesWitness ==
    /\ last.op = "updateInvestmentTransaction" /\ last.ok
    /\ Unwrap(last.old).account_id # Unwrap(last.args).account_id
    /\ Unwrap(last.old).category = Some("Investment")
    /\ Unwrap(last.old).amount # db.transactions[last.id].amount
    /\ Unwrap(last.old).account_id \in AccountIds(db)
    /\ db.accounts[Unwrap(last.old).account_id].balance = 0
    /\ db.accounts[Unwrap(last.args).account_id].balance = db.transactions[last.id].amount

\* C29: at every reachable state every transaction with a linked reference
\* has category "Transfer", also after updateTransaction calls that supply
\* another category
LinkedIsTransfer ==
    \A t \in TxIds(db) :
        IsSome(db.transactions[t].linked_tx_id)
            => db.transactions[t].category = Some("Transfer")

\* C30: account names stay non-empty and unique ignoring letter case at every
\* reachable state, also when createAccount, renameAccount and updateAccount
\* calls of different callers interleave statement by statement: two calls
\* asking for the same name never both succeed
NamesStayUnique ==
    /\ \A a \in AccountIds(db) : Trim(db.accounts[a].name) # <<>>
    /\ \A a, b \in AccountIds(db) :
           a # b => Fold(db.accounts[a].name) # Fold(db.accounts[b].name)

\* C34: at every reachable state of createTransaction, updateTransaction and
\* deleteTransaction calls, two transactions that name each other as linked
\* row have exactly negated amounts
LinkedAmountsNegated ==
    \A t, u \in TxIds(db) :
        MutuallyLinked(db, t, u)
            => db.transactions[t].amount = - db.transactions[u].amount

\* C38: at every reachable state of createTransaction and updateTransaction
\* calls, moves to another account included, the two rows of a mutually linked
\* pair are owned by two different accounts
PairOnTwoAccounts ==
    \A t, u \in TxIds(db) :
        MutuallyLinked(db, t, u)
            => db.transactions[t].account_id # db.transactions[u].account_id

\* C40: the counterpart row a transfer createTransaction inserts is stored
\* with no currency whatever currency the call carries, while the caller's
\* row stores that currency; and a row that is not the one a call addresses
\* only changes its currency in an updateTransaction, to the currency that
\* call carries
CounterpartHasNoCurrency ==
    [][ /\ (/\ last'.op = "createTransaction" /\ last'.ok
            /\ IsSome(db'.transactions[last'.id].linked_tx_id))
           => LET c == Unwrap(db'.transactions[last'.id].linked_tx_id)
              IN  /\ c \in TxIds(db') \ TxIds(db)
                  /\ db'.transactions[c].currency = None
                  /\ db'.transactions[last'.id].currency
                         = Unwrap(last'.args).currency
        /\ \A t \in TxIds(db) \cap TxIds(db') :
               (/\ t # last'.id
                /\ db'.transactions[t].currency # db.transactions[t].currency)
               => /\ last'.op = "updateTransaction" /\ last'.ok
                  /\ db'.transactions[t].currency = Unwrap(last'.args).currency
                  /\ t \in Located(db, last'.id, Unwrap(last'.args).notes) ]_vars

\* a transfer was created with currency EUR and its counterpart stores none
CounterpartHasNoCurrencyWitness ==
    /\ last.op = "createTransaction" /\ last.ok
    /\ Unwrap(last.args).currency = Some("EUR")
    /\ IsSome(db.transactions[last.id].linked_tx_id)
    /\ LET c == Unwrap(db.transactions[last.id].linked_tx_id)
       IN  /\ c \in TxIds(db)
           /\ db.transactions[c].currency = None
           /\ db.transactions[last.id].currency = Some("EUR")

\* an updateTransaction gave the counterpart of a transfer its currency
CounterpartTakesCurrencyWitness ==
    /\ last.op = "updateTransaction" /\ last.ok
    /\ IsSome(db.transactions[last.id].linked_tx_id)
    /\ LET c == Unwrap(db.transactions[last.id].linked_tx_id)
       IN  /\ c \in TxIds(db)
           /\ db.transactions[c].currency = Some("USD")
           /\ Unwrap(last.args).currency = Some("USD")

\* C36: a deleteTransaction called on a transaction that has no linked
\* reference and whose category is not "Transfer" removes exactly that row and
\* changes only the balance of that row's account, by the row's amount; no
\* other row is removed
PlainDeleteIsLocal ==
    [][ (/\ last'.op = "deleteTransaction" /\ last'.ok
         /\ Unwrap(last'.old).linked_tx_id = None
         /\ Unwrap(last'.old).category # Some("Transfer"))
        => LET old == Unwrap(last'.old)
           IN  /\ TxIds(db') = TxIds(db) \ {last'.id}
               /\ RowsKept(db, db', TxIds(db) \ {last'.id})
               /\ AccountIds(db') = AccountIds(db)
               /\ \A a \in AccountIds(db) :
                      db'.accounts[a].balance =
                          IF a = old.account_id
                          THEN db.accounts[a].balance - old.amount
                          ELSE db.accounts[a].balance ]_vars

\* C35: the id of a deleted transaction is never given to a later row, so a
\* row that a call inserts never takes an id that the linked reference of a
\* row already stored names
NewIdIsNotReferenced ==
    [][ \A n \in TxIds(db') \ TxIds(db) :
            \A t \in TxIds(db) : db.transactions[t].linked_tx_id # Some(n) ]_vars

UpdateKeepsRowsAndLinks ==
    [][ UpdateOk
        => LET id == last'.id
               old == Unwrap(last'.old)
               args == Unwrap(last'.args)
               byNotes == IF old.linked_tx_id = None /\ IsSome(args.notes)
                          THEN SameNotesTransfers(db, Unwrap(args.notes), id)
                          ELSE {}
               changed == {t \in TxIds(db) :
                              db'.transactions[t].linked_tx_id
                                  # db.transactions[t].linked_tx_id}
           IN  /\ TxIds(db') = TxIds(db)
               /\ AccountIds(db') = AccountIds(db)
               /\ byNotes = {} => changed = {}
               /\ changed # {}
                      => \E c \in byNotes :
                             /\ changed \subseteq {id, c}
                             /\ db'.transactions[id].linked_tx_id = Some(c)
                             /\ db'.transactions[c].linked_tx_id = Some(id) ]_vars

\* the payee of an unlinked row became the name of another account and the
\* store holds the rows it held, the row still without linked reference
UpdateKeepsRowsAndLinksWitness ==
    /\ last.op = "updateTransaction" /\ last.ok
    /\ Unwrap(last.old).payee # Unwrap(last.args).payee
    /\ \E b \in AccountIds(db) \ {Unwrap(last.args).account_id} :
           db.accounts[b].name = Unwrap(last.args).payee
    /\ db.transactions[last.id].linked_tx_id = None
    /\ db.transactions[last.id].payee = Unwrap(last.args).payee
    /\ Cardinality(TxIds(db)) = 1

\* the payee of a row of a mutually linked pair became a text that names no
\* account and the pair is still linked
UpdateKeepsLinkWitness ==
    /\ last.op = "updateTransaction" /\ last.ok
    /\ Unwrap(last.old).payee # Unwrap(last.args).payee
    /\ \A b \in AccountIds(db) : db.accounts[b].name # Unwrap(last.args).payee
    /\ IsSome(Unwrap(last.old).linked_tx_id)
    /\ MutuallyLinked(db, last.id, Unwrap(Unwrap(last.old).linked_tx_id))

\* C32: whatever each request task of a listAccounts call returned (a quote,
\* an error, nothing) and in whatever order the tasks returned, the balances
\* are computed when no task is outstanding, the call fails only when the
\* store fails, a call that returns carries one balance per account, and no
\* step of the call changes a row of accounts or of transactions
BalancesAfterAllRequests ==
    [][ /\ db'.accounts = db.accounts
        /\ db'.transactions = db.transactions
        /\ (last'.op = "getAccounts" /\ inflight' = NoCalls /\ inflight # NoCalls)
           => /\ Unwrap(inflight[1]).pending = {}
              /\ Len(Unwrap(inflight[1]).returned)
                     = Cardinality(Unwrap(inflight[1]).asked)
              /\ ~last'.ok => last'.fault # 0
              /\ last'.ok
                     => /\ Len(Unwrap(last'.ret)) = Len(db.accounts)
                        /\ \A i \in DOMAIN db.accounts :
                               /\ Unwrap(last'.ret)[i].id = i
                               /\ Unwrap(last'.ret)[i].balance[2] > 0 ]_vars

\* a listAccounts call returned a balance after its first request to return
\* failed (its rate then comes from the cached prices), a later one gave a
\* quote and another one gave nothing
BalancesAfterAllRequestsWitness ==
    /\ last.op = "getAccounts" /\ last.ok
    /\ LET args == Unwrap(last.args)
       IN  /\ Len(args.returned) >= 2
           /\ args.returned[1] = <<"GBPUSD=X", "error">>
           /\ "GBPUSD=X" \in DOMAIN args.rates
           /\ \E i \in DOMAIN args.returned : args.returned[i][2] = "quote"
           /\ \E i \in DOMAIN args.returned : args.returned[i][2] = "nothing"
    /\ Len(Unwrap(last.ret)) = 1
    /\ db.accounts # <<>>

\* C33: schema initialisation is idempotent. Every initialisation returns
\* success, alone, again or while another one runs, and leaves the full
\* schema; no table ever has a column twice; every statement keeps every row
\* with the values it had, a new column being null in it; and on a store that
\* has the full schema no statement changes anything
SchemaInitIsIdempotent ==
    [][ /\ last'.op = "initDb" => (last'.ok /\ db'.schema = FullSchema)
        /\ \A t \in DOMAIN db'.schema :
               \A i, j \in DOMAIN db'.schema[t] :
                   db'.schema[t][i] = db'.schema[t][j] => i = j
        /\ \A t \in DOMAIN db.rows :
               /\ t \in DOMAIN db'.rows
               /\ Len(db'.rows[t]) = Len(db.rows[t])
               /\ \A i \in DOMAIN db.rows[t] :
                      /\ \A col \in DOMAIN db.rows[t][i] :
                             db'.rows[t][i][col] = db.rows[t][i][col]
                      /\ \A col \in DOMAIN db'.rows[t][i] \ DOMAIN db.rows[t][i] :
                             db'.rows[t][i][col] = None
                      /\ DOMAIN db'.rows[t][i]
                             = {db'.schema[t][k] : k \in DOMAIN db'.schema[t]}
        /\ db.schema = FullSchema => db' = db ]_vars

\* two initialisations ran at the same time on a legacy store that has rows:
\* both returned success, the one that returned last after an ALTER TABLE
\* that found its column added by the other
SchemaInitIsIdempotentWitness ==
    /\ last.op = "initDb" /\ last.ok
    /\ Unwrap(last.args).duplicate
    /\ nops = 2 /\ inflight = NoCalls
    /\ db.schema = FullSchema
    /\ Len(db.rows["transactions"]) = 1
    /\ db.rows["transactions"][1]["linked_tx_id"] = None
    /\ db.rows["transactions"][1]["amount"] = 2

\* C31: when the updateTransaction or deleteTransaction calls of two callers
\* on the same row have both returned, however their statements interleaved,
\* the store is the one that running the two calls one after the other, in
\* one of the two orders, leaves
ConcurrentIsSerial ==
    (\A c \in Callers : IsSome(inflight[c]) /\ Unwrap(inflight[c]).lock = "returned")
        => LET first == Unwrap(inflight[1])
               second == Unwrap(inflight[2])
           IN  db \in {RunCall(RunCall(RaceStore, first).db, second).db,
                       RunCall(RunCall(RaceStore, second).db, first).db}

====
